---- MODULE Spec2Model ----
(***************************************************************************)
(* Keyword resolution of uncrustify (src/src/keywords.cpp): the master     *)
(* keyword table, its per-language copy, the dynamic keyword map, the      *)
(* lookup find_keyword_type, the keyword file, the dump of the dynamic     *)
(* keywords and the pattern class of a token.                              *)
(*                                                                         *)
(* Representation.  A C string is the sequence of its bytes (the           *)
(* terminating NUL is implicit), so that strcmp is the byte-wise order.    *)
(* The tag of a chunk_tag_t is a pointer to a string literal: it is the    *)
(* literal, and chars() gives the bytes it points to.                      *)
(* A language flag word is the set of its bits, so that `a | b` is         *)
(* a \cup b and `(a & b) != 0` is a \cap b # {}.  A token kind (E_Token)   *)
(* is the string of its enumerator.  Arrays are 1-based here: C index i    *)
(* is index i + 1, and the null pointer is index 0.                        *)
(***************************************************************************)
EXTENDS Integers, Sequences, FiniteSets, TLC

VARIABLES
  dkwm,              \* the dynamic keyword map: spelling -> kind
  keyword_for_lang,  \* the entries [0, language_count) of keyword_for_lang[]
  language_count,    \* number of entries of keyword_for_lang[] in use
  cpd_lang_flags,    \* cpd.lang_flags
  cpd_in_preproc,    \* cpd.in_preproc
  active_flags,      \* history: cpd.lang_flags at the last init_keywords_for_language
  replaced,          \* history: cpd.lang_flags is as the last init_keywords_for_language
                     \* left it, and that call found entries of an earlier one
  primed,            \* history: the last operation was a find_keyword_type that took
                     \* cpd.in_preproc from outside a directive to CT_PREPROC
  suppressed,        \* history: <<cpd.in_preproc>> when the last operation was a
                     \* find_keyword_type of "_Pragma" or "__pragma" that the
                     \* dynamic keyword map answered, <<>> otherwise
  last,              \* history: the call of find_keyword_type that has just returned
  written,           \* history: the kind last given for each spelling, by add_keyword
                     \* or load_keyword_file, since the last clear_keyword_file
  cleared,           \* history: <<the map before the last clear_keyword_file>>, <<>>
                     \* when there was none or an entry was written since
  ret,               \* history: the call of another function that has just returned
                     \* or ended the process
  exit_status        \* the status exit() was called with, Running before that

vars == <<dkwm, keyword_for_lang, language_count, cpd_lang_flags, cpd_in_preproc,
          active_flags, replaced, primed, suppressed, last, written, cleared, ret,
          exit_status>>

-----------------------------------------------------------------------------
(* Language flags (lang_flag_e).                                           *)

LANG_C == {"C"}
LANG_CPP == {"CPP"}
LANG_D == {"D"}
LANG_CS == {"CS"}
LANG_JAVA == {"JAVA"}
LANG_OC == {"OC"}
LANG_VALA == {"VALA"}
LANG_PAWN == {"PAWN"}
LANG_ECMA == {"ECMA"}
\* 0x017f: every language above but Pawn
LANG_ALLC ==
  LANG_C \cup LANG_CPP \cup LANG_D \cup LANG_CS \cup LANG_JAVA \cup LANG_OC
    \cup LANG_VALA \cup LANG_ECMA
\* 0x0fff: every language above and three bits no language uses
LANG_ALL == LANG_ALLC \cup LANG_PAWN \cup {"0x0200", "0x0400", "0x0800"}
FLAG_HDR == {"HDR"}
FLAG_PP == {"PP"}

Kw(tag, type, lang_flags) == [tag |-> tag, type |-> type, lang_flags |-> lang_flags]

\* static chunk_tag_t keywords[]
keywords ==
  <<
    Kw("@autoreleasepool",                "CT_AUTORELEASEPOOL",  LANG_OC),
    Kw("@available",                      "CT_OC_AVAILABLE",     LANG_OC),
    Kw("@catch",                          "CT_CATCH",            LANG_OC),
    Kw("@dynamic",                        "CT_OC_DYNAMIC",       LANG_OC),
    Kw("@end",                            "CT_OC_END",           LANG_OC),
    Kw("@finally",                        "CT_FINALLY",          LANG_OC),
    Kw("@implementation",                 "CT_OC_IMPL",          LANG_OC),
    Kw("@interface",                      "CT_OC_INTF",          LANG_OC),
    Kw("@interface",                      "CT_CLASS",            LANG_JAVA),
    Kw("@private",                        "CT_ACCESS",           LANG_OC),
    Kw("@property",                       "CT_OC_PROPERTY",      LANG_OC),
    Kw("@protected",                      "CT_ACCESS",           LANG_OC),
    Kw("@protocol",                       "CT_OC_PROTOCOL",      LANG_OC),
    Kw("@public",                         "CT_ACCESS",           LANG_OC),
    Kw("@selector",                       "CT_OC_SEL",           LANG_OC),
    Kw("@synchronized",                   "CT_SYNCHRONIZED",     LANG_OC),
    Kw("@synthesize",                     "CT_OC_DYNAMIC",       LANG_OC),
    Kw("@throw",                          "CT_THROW",            LANG_OC),
    Kw("@try",                            "CT_TRY",              LANG_OC),
    Kw("API_AVAILABLE",                   "CT_ATTRIBUTE",        LANG_OC),
    Kw("API_DEPRECATED",                  "CT_ATTRIBUTE",        LANG_OC),
    Kw("API_DEPRECATED_WITH_REPLACEMENT", "CT_ATTRIBUTE",        LANG_OC),
    Kw("API_UNAVAILABLE",                 "CT_ATTRIBUTE",        LANG_OC),
    Kw("BOOL",                            "CT_TYPE",             LANG_OC),
    Kw("INT16_C",                         "CT_TYPE",             LANG_CPP),
    Kw("INT32_C",                         "CT_TYPE",             LANG_CPP),
    Kw("INT64_C",                         "CT_TYPE",             LANG_CPP),
    Kw("INT8_C",                          "CT_TYPE",             LANG_CPP),
    Kw("INTMAX_C",                        "CT_TYPE",             LANG_CPP),
    Kw("NS_ENUM",                         "CT_ENUM",             LANG_OC),
    Kw("NS_OPTIONS",                      "CT_ENUM",             LANG_OC),
    Kw("Q_EMIT",                          "CT_Q_EMIT",           LANG_CPP),
    Kw("Q_FOREACH",                       "CT_FOR",              LANG_CPP),
    Kw("Q_FOREVER",                       "CT_Q_FOREVER",        LANG_CPP),
    Kw("Q_GADGET",                        "CT_Q_GADGET",         LANG_CPP),
    Kw("Q_OBJECT",                        "CT_COMMENT_EMBED",    LANG_CPP),
    Kw("Q_SIGNALS",                       "CT_ACCESS",           LANG_CPP),
    Kw("UINT16_C",                        "CT_TYPE",             LANG_CPP),
    Kw("UINT32_C",                        "CT_TYPE",             LANG_CPP),
    Kw("UINT64_C",                        "CT_TYPE",             LANG_CPP),
    Kw("UINT8_C",                         "CT_TYPE",             LANG_CPP),
    Kw("UINTMAX_C",                       "CT_TYPE",             LANG_CPP),
    Kw("_Bool",                           "CT_TYPE",             LANG_C \cup LANG_CPP),
    Kw("_Complex",                        "CT_TYPE",             LANG_C \cup LANG_CPP),
    Kw("_Imaginary",                      "CT_TYPE",             LANG_C \cup LANG_CPP),
    Kw("_Nonnull",                        "CT_QUALIFIER",        LANG_OC),
    Kw("_Null_unspecified",               "CT_QUALIFIER",        LANG_OC),
    Kw("_Nullable",                       "CT_QUALIFIER",        LANG_OC),
    Kw("_Pragma",                         "CT_PP_PRAGMA",        LANG_ALL \cup FLAG_PP),
    Kw("__DI__",                          "CT_DI",               LANG_C \cup LANG_CPP),
    Kw("__HI__",                          "CT_HI",               LANG_C \cup LANG_CPP),
    Kw("__QI__",                          "CT_QI",               LANG_C \cup LANG_CPP),
    Kw("__SI__",                          "CT_SI",               LANG_C \cup LANG_CPP),
    Kw("__asm__",                         "CT_ASM",              LANG_C \cup LANG_CPP),
    Kw("__attribute__",                   "CT_ATTRIBUTE",        LANG_C \cup LANG_CPP \cup LANG_OC),
    Kw("__autoreleasing",                 "CT_QUALIFIER",        LANG_C \cup LANG_CPP),
    Kw("__block",                         "CT_QUALIFIER",        LANG_C \cup LANG_CPP \cup LANG_OC),
    Kw("__bridge",                        "CT_QUALIFIER",        LANG_C \cup LANG_CPP),
    Kw("__bridge_retained",               "CT_QUALIFIER",        LANG_C \cup LANG_CPP),
    Kw("__bridge_transfer",               "CT_QUALIFIER",        LANG_C \cup LANG_CPP),
    Kw("__const__",                       "CT_QUALIFIER",        LANG_C \cup LANG_CPP),
    Kw("__declspec",                      "CT_DECLSPEC",         LANG_C \cup LANG_CPP),
    Kw("__except",                        "CT_CATCH",            LANG_C \cup LANG_CPP),
    Kw("__finally",                       "CT_FINALLY",          LANG_C \cup LANG_CPP),
    Kw("__has_include",                   "CT_CNG_HASINC",       LANG_C \cup LANG_CPP \cup LANG_OC \cup FLAG_PP),
    Kw("__has_include_next",              "CT_CNG_HASINCN",      LANG_C \cup LANG_CPP \cup FLAG_PP),
    Kw("__inline__",                      "CT_QUALIFIER",        LANG_C \cup LANG_CPP),
    Kw("__nonnull",                       "CT_QUALIFIER",        LANG_OC),
    Kw("__nothrow__",                     "CT_NOTHROW",          LANG_C \cup LANG_CPP),
    Kw("__null_unspecified",              "CT_QUALIFIER",        LANG_OC),
    Kw("__nullable",                      "CT_QUALIFIER",        LANG_OC),
    Kw("__pragma",                        "CT_PP_PRAGMA",        LANG_ALL \cup FLAG_PP),
    Kw("__restrict",                      "CT_QUALIFIER",        LANG_C \cup LANG_CPP),
    Kw("__signed__",                      "CT_TYPE",             LANG_C \cup LANG_CPP),
    Kw("__strong",                        "CT_QUALIFIER",        LANG_C \cup LANG_CPP),
    Kw("__thread",                        "CT_QUALIFIER",        LANG_C \cup LANG_CPP),
    Kw("__traits",                        "CT_QUALIFIER",        LANG_D),
    Kw("__try",                           "CT_TRY",              LANG_C \cup LANG_CPP),
    Kw("__typeof",                        "CT_DECLTYPE",         LANG_C \cup LANG_CPP \cup LANG_OC),
    Kw("__typeof__",                      "CT_DECLTYPE",         LANG_C \cup LANG_CPP),
    Kw("__unsafe_unretained",             "CT_QUALIFIER",        LANG_OC),
    Kw("__unused",                        "CT_ATTRIBUTE",        LANG_C \cup LANG_CPP),
    Kw("__volatile__",                    "CT_QUALIFIER",        LANG_C \cup LANG_CPP),
    Kw("__weak",                          "CT_QUALIFIER",        LANG_C \cup LANG_CPP),
    Kw("__word__",                        "CT_WORD_",            LANG_C \cup LANG_CPP),
    Kw("abstract",                        "CT_QUALIFIER",        LANG_CS \cup LANG_D \cup LANG_JAVA \cup LANG_VALA \cup LANG_ECMA),
    Kw("add",                             "CT_GETSET",           LANG_CS),
    Kw("alias",                           "CT_USING",            LANG_D),
    Kw("align",                           "CT_ALIGN",            LANG_D),
    Kw("alignof",                         "CT_SIZEOF",           LANG_CPP),
    Kw("and",                             "CT_SBOOL",            LANG_CPP),
    Kw("and_eq",                          "CT_SASSIGN",          LANG_CPP),
    Kw("as",                              "CT_AS",               LANG_CS \cup LANG_VALA),
    Kw("asm",                             "CT_ASM",              LANG_C \cup LANG_CPP \cup LANG_D),
    Kw("asm",                             "CT_PP_ASM",           LANG_ALL \cup FLAG_PP),
    Kw("assert",                          "CT_ASSERT",           LANG_JAVA),
    Kw("assert",                          "CT_FUNCTION",         LANG_D \cup LANG_PAWN),
    Kw("assert",                          "CT_PP_ASSERT",        LANG_PAWN \cup FLAG_PP),
    Kw("auto",                            "CT_TYPE",             LANG_C \cup LANG_CPP \cup LANG_D),
    Kw("base",                            "CT_BASE",             LANG_CS \cup LANG_VALA),
    Kw("bit",                             "CT_TYPE",             LANG_D),
    Kw("bitand",                          "CT_ARITH",            LANG_C \cup LANG_CPP),
    Kw("bitor",                           "CT_ARITH",            LANG_C \cup LANG_CPP),
    Kw("body",                            "CT_BODY",             LANG_D),
    Kw("bool",                            "CT_TYPE",             LANG_C \cup LANG_CPP \cup LANG_CS \cup LANG_VALA),
    Kw("boolean",                         "CT_TYPE",             LANG_JAVA \cup LANG_ECMA),
    Kw("break",                           "CT_BREAK",            LANG_ALL),
    Kw("byte",                            "CT_TYPE",             LANG_CS \cup LANG_D \cup LANG_JAVA \cup LANG_ECMA),
    Kw("callback",                        "CT_QUALIFIER",        LANG_VALA),
    Kw("case",                            "CT_CASE",             LANG_ALL),
    Kw("cast",                            "CT_D_CAST",           LANG_D),
    Kw("catch",                           "CT_CATCH",            LANG_CPP \cup LANG_CS \cup LANG_VALA \cup LANG_D \cup LANG_JAVA \cup LANG_ECMA),
    Kw("cdouble",                         "CT_TYPE",             LANG_D),
    Kw("cent",                            "CT_TYPE",             LANG_D),
    Kw("cfloat",                          "CT_TYPE",             LANG_D),
    Kw("char",                            "CT_CHAR",             LANG_PAWN),
    Kw("char",                            "CT_TYPE",             LANG_ALLC),
    Kw("checked",                         "CT_QUALIFIER",        LANG_CS),
    Kw("class",                           "CT_CLASS",            LANG_CPP \cup LANG_CS \cup LANG_D \cup LANG_JAVA \cup LANG_VALA \cup LANG_ECMA),
    Kw("compl",                           "CT_ARITH",            LANG_CPP),
    Kw("const",                           "CT_QUALIFIER",        LANG_ALL),
    Kw("const_cast",                      "CT_TYPE_CAST",        LANG_CPP),
    Kw("constexpr",                       "CT_QUALIFIER",        LANG_CPP),
    Kw("construct",                       "CT_CONSTRUCT",        LANG_VALA),
    Kw("continue",                        "CT_CONTINUE",         LANG_ALL),
    Kw("creal",                           "CT_TYPE",             LANG_D),
    Kw("dchar",                           "CT_TYPE",             LANG_D),
    Kw("debug",                           "CT_DEBUG",            LANG_D),
    Kw("debugger",                        "CT_DEBUGGER",         LANG_ECMA),
    Kw("decltype",                        "CT_DECLTYPE",         LANG_CPP),
    Kw("default",                         "CT_DEFAULT",          LANG_ALL),
    Kw("define",                          "CT_PP_DEFINE",        LANG_ALL \cup FLAG_PP),
    Kw("defined",                         "CT_DEFINED",          LANG_PAWN),
    Kw("defined",                         "CT_PP_DEFINED",       LANG_ALLC \cup FLAG_PP),
    Kw("delegate",                        "CT_DELEGATE",         LANG_CS \cup LANG_VALA \cup LANG_D),
    Kw("delete",                          "CT_DELETE",           LANG_CPP \cup LANG_D \cup LANG_ECMA \cup LANG_VALA),
    Kw("deprecated",                      "CT_QUALIFIER",        LANG_D),
    Kw("do",                              "CT_DO",               LANG_ALL),
    Kw("double",                          "CT_TYPE",             LANG_ALLC),
    Kw("dynamic_cast",                    "CT_TYPE_CAST",        LANG_CPP),
    Kw("elif",                            "CT_PP_ELSE",          LANG_ALLC \cup FLAG_PP),
    Kw("else",                            "CT_ELSE",             LANG_ALL),
    Kw("else",                            "CT_PP_ELSE",          LANG_ALL \cup FLAG_PP),
    Kw("elseif",                          "CT_PP_ELSE",          LANG_PAWN \cup FLAG_PP),
    Kw("emit",                            "CT_PP_EMIT",          LANG_PAWN \cup FLAG_PP),
    Kw("endif",                           "CT_PP_ENDIF",         LANG_ALL \cup FLAG_PP),
    Kw("endinput",                        "CT_PP_ENDINPUT",      LANG_PAWN \cup FLAG_PP),
    Kw("endregion",                       "CT_PP_ENDREGION",     LANG_ALL \cup FLAG_PP),
    Kw("endscript",                       "CT_PP_ENDINPUT",      LANG_PAWN \cup FLAG_PP),
    Kw("enum",                            "CT_ENUM",             LANG_ALL),
    Kw("error",                           "CT_PP_ERROR",         LANG_PAWN \cup FLAG_PP),
    Kw("errordomain",                     "CT_ENUM",             LANG_VALA),
    Kw("event",                           "CT_TYPE",             LANG_CS),
    Kw("exit",                            "CT_FUNCTION",         LANG_PAWN),
    Kw("explicit",                        "CT_QUALIFIER",        LANG_CPP \cup LANG_CS),
    Kw("export",                          "CT_EXPORT",           LANG_CPP \cup LANG_D \cup LANG_ECMA),
    Kw("extends",                         "CT_QUALIFIER",        LANG_JAVA \cup LANG_ECMA),
    Kw("extern",                          "CT_EXTERN",           LANG_C \cup LANG_CPP \cup LANG_OC \cup LANG_CS \cup LANG_D \cup LANG_VALA),
    Kw("false",                           "CT_WORD",             LANG_ALL),
    Kw("file",                            "CT_PP_FILE",          LANG_PAWN \cup FLAG_PP),
    Kw("final",                           "CT_QUALIFIER",        LANG_CPP \cup LANG_D \cup LANG_ECMA),
    Kw("finally",                         "CT_FINALLY",          LANG_D \cup LANG_CS \cup LANG_VALA \cup LANG_ECMA \cup LANG_JAVA),
    Kw("fixed",                           "CT_FIXED",            LANG_CS),
    Kw("flags",                           "CT_TYPE",             LANG_VALA),
    Kw("float",                           "CT_TYPE",             LANG_ALLC),
    Kw("for",                             "CT_FOR",              LANG_ALL),
    Kw("foreach",                         "CT_FOR",              LANG_CS \cup LANG_D \cup LANG_VALA),
    Kw("foreach_reverse",                 "CT_FOR",              LANG_D),
    Kw("forward",                         "CT_FORWARD",          LANG_PAWN),
    Kw("friend",                          "CT_FRIEND",           LANG_CPP),
    Kw("function",                        "CT_FUNCTION",         LANG_D \cup LANG_ECMA),
    Kw("get",                             "CT_GETSET",           LANG_CS \cup LANG_VALA),
    Kw("goto",                            "CT_GOTO",             LANG_ALL),
    Kw("idouble",                         "CT_TYPE",             LANG_D),
    Kw("if",                              "CT_IF",               LANG_ALL),
    Kw("if",                              "CT_PP_IF",            LANG_ALL \cup FLAG_PP),
    Kw("ifdef",                           "CT_PP_IF",            LANG_ALLC \cup FLAG_PP),
    Kw("ifloat",                          "CT_TYPE",             LANG_D),
    Kw("ifndef",                          "CT_PP_IF",            LANG_ALLC \cup FLAG_PP),
    Kw("implements",                      "CT_QUALIFIER",        LANG_JAVA \cup LANG_ECMA),
    Kw("implicit",                        "CT_QUALIFIER",        LANG_CS),
    Kw("import",                          "CT_IMPORT",           LANG_D \cup LANG_JAVA \cup LANG_ECMA),
    Kw("import",                          "CT_PP_INCLUDE",       LANG_OC \cup FLAG_PP),
    Kw("in",                              "CT_IN",               LANG_D \cup LANG_CS \cup LANG_VALA \cup LANG_ECMA \cup LANG_OC),
    Kw("include",                         "CT_PP_INCLUDE",       LANG_C \cup LANG_CPP \cup LANG_OC \cup LANG_PAWN \cup FLAG_PP),
    Kw("inline",                          "CT_QUALIFIER",        LANG_C \cup LANG_CPP),
    Kw("inout",                           "CT_QUALIFIER",        LANG_D),
    Kw("instanceof",                      "CT_SIZEOF",           LANG_JAVA \cup LANG_ECMA),
    Kw("int",                             "CT_TYPE",             LANG_ALLC),
    Kw("interface",                       "CT_CLASS",            LANG_CPP \cup LANG_CS \cup LANG_D \cup LANG_JAVA \cup LANG_VALA \cup LANG_ECMA),
    Kw("internal",                        "CT_QUALIFIER",        LANG_CS \cup LANG_VALA),
    Kw("invariant",                       "CT_INVARIANT",        LANG_D),
    Kw("ireal",                           "CT_TYPE",             LANG_D),
    Kw("is",                              "CT_SCOMPARE",         LANG_D \cup LANG_CS \cup LANG_VALA),
    Kw("lazy",                            "CT_LAZY",             LANG_D),
    Kw("line",                            "CT_PP_LINE",          LANG_PAWN \cup FLAG_PP),
    Kw("lock",                            "CT_LOCK",             LANG_CS \cup LANG_VALA),
    Kw("long",                            "CT_TYPE",             LANG_ALLC),
    Kw("macro",                           "CT_D_MACRO",          LANG_D),
    Kw("mixin",                           "CT_CLASS",            LANG_D),
    Kw("module",                          "CT_D_MODULE",         LANG_D),
    Kw("mutable",                         "CT_QUALIFIER",        LANG_CPP),
    Kw("namespace",                       "CT_NAMESPACE",        LANG_CPP \cup LANG_CS \cup LANG_VALA),
    Kw("native",                          "CT_NATIVE",           LANG_PAWN),
    Kw("native",                          "CT_QUALIFIER",        LANG_JAVA \cup LANG_ECMA),
    Kw("new",                             "CT_NEW",              LANG_CPP \cup LANG_CS \cup LANG_D \cup LANG_JAVA \cup LANG_PAWN \cup LANG_VALA \cup LANG_ECMA),
    Kw("noexcept",                        "CT_NOEXCEPT",         LANG_CPP),
    Kw("nonnull",                         "CT_TYPE",             LANG_OC),
    Kw("not",                             "CT_SARITH",           LANG_CPP),
    Kw("not_eq",                          "CT_SCOMPARE",         LANG_CPP),
    Kw("null_resettable",                 "CT_OC_PROPERTY_ATTR", LANG_OC),
    Kw("null_unspecified",                "CT_TYPE",             LANG_OC),
    Kw("nullable",                        "CT_TYPE",             LANG_OC),
    Kw("object",                          "CT_TYPE",             LANG_CS),
    Kw("operator",                        "CT_OPERATOR",         LANG_CPP \cup LANG_CS \cup LANG_PAWN),
    Kw("or",                              "CT_SBOOL",            LANG_CPP),
    Kw("or_eq",                           "CT_SASSIGN",          LANG_CPP),
    Kw("out",                             "CT_QUALIFIER",        LANG_CS \cup LANG_D \cup LANG_VALA),
    Kw("override",                        "CT_QUALIFIER",        LANG_CPP \cup LANG_CS \cup LANG_D \cup LANG_VALA),
    Kw("package",                         "CT_ACCESS",           LANG_D),
    Kw("package",                         "CT_PACKAGE",          LANG_ECMA \cup LANG_JAVA),
    Kw("params",                          "CT_TYPE",             LANG_CS \cup LANG_VALA),
    Kw("pragma",                          "CT_PP_PRAGMA",        LANG_ALL \cup FLAG_PP),
    Kw("private",                         "CT_ACCESS",           LANG_ALLC),
    Kw("property",                        "CT_PP_PROPERTY",      LANG_CS \cup FLAG_PP),
    Kw("protected",                       "CT_ACCESS",           LANG_ALLC),
    Kw("public",                          "CT_ACCESS",           LANG_ALL),
    Kw("readonly",                        "CT_QUALIFIER",        LANG_CS),
    Kw("real",                            "CT_TYPE",             LANG_D),
    Kw("ref",                             "CT_QUALIFIER",        LANG_CS \cup LANG_VALA),
    Kw("region",                          "CT_PP_REGION",        LANG_ALL \cup FLAG_PP),
    Kw("register",                        "CT_QUALIFIER",        LANG_C \cup LANG_CPP),
    Kw("reinterpret_cast",                "CT_TYPE_CAST",        LANG_CPP),
    Kw("remove",                          "CT_GETSET",           LANG_CS),
    Kw("restrict",                        "CT_QUALIFIER",        LANG_C \cup LANG_CPP),
    Kw("return",                          "CT_RETURN",           LANG_ALL),
    Kw("sbyte",                           "CT_TYPE",             LANG_CS),
    Kw("scope",                           "CT_D_SCOPE",          LANG_D),
    Kw("sealed",                          "CT_QUALIFIER",        LANG_CS),
    Kw("section",                         "CT_PP_SECTION",       LANG_PAWN \cup FLAG_PP),
    Kw("self",                            "CT_THIS",             LANG_OC),
    Kw("set",                             "CT_GETSET",           LANG_CS \cup LANG_VALA),
    Kw("short",                           "CT_TYPE",             LANG_ALLC),
    Kw("signal",                          "CT_ACCESS",           LANG_VALA),
    Kw("signals",                         "CT_ACCESS",           LANG_CPP),
    Kw("signed",                          "CT_TYPE",             LANG_C \cup LANG_CPP),
    Kw("size_t",                          "CT_TYPE",             LANG_ALLC),
    Kw("sizeof",                          "CT_SIZEOF",           LANG_C \cup LANG_CPP \cup LANG_CS \cup LANG_VALA \cup LANG_PAWN),
    Kw("sleep",                           "CT_SIZEOF",           LANG_PAWN),
    Kw("stackalloc",                      "CT_NEW",              LANG_CS),
    Kw("state",                           "CT_STATE",            LANG_PAWN),
    Kw("static",                          "CT_QUALIFIER",        LANG_ALL),
    Kw("static_cast",                     "CT_TYPE_CAST",        LANG_CPP),
    Kw("stock",                           "CT_STOCK",            LANG_PAWN),
    Kw("strictfp",                        "CT_QUALIFIER",        LANG_JAVA),
    Kw("string",                          "CT_TYPE",             LANG_CS \cup LANG_VALA),
    Kw("struct",                          "CT_STRUCT",           LANG_C \cup LANG_CPP \cup LANG_OC \cup LANG_CS \cup LANG_D \cup LANG_VALA),
    Kw("super",                           "CT_SUPER",            LANG_D \cup LANG_JAVA \cup LANG_ECMA),
    Kw("switch",                          "CT_SWITCH",           LANG_ALL),
    Kw("synchronized",                    "CT_QUALIFIER",        LANG_D \cup LANG_ECMA),
    Kw("synchronized",                    "CT_SYNCHRONIZED",     LANG_JAVA),
    Kw("tagof",                           "CT_TAGOF",            LANG_PAWN),
    Kw("template",                        "CT_TEMPLATE",         LANG_CPP \cup LANG_D),
    Kw("this",                            "CT_THIS",             LANG_CPP \cup LANG_CS \cup LANG_D \cup LANG_JAVA \cup LANG_VALA \cup LANG_ECMA),
    Kw("throw",                           "CT_THROW",            LANG_CPP \cup LANG_CS \cup LANG_VALA \cup LANG_D \cup LANG_JAVA \cup LANG_ECMA),
    Kw("throws",                          "CT_QUALIFIER",        LANG_JAVA \cup LANG_ECMA \cup LANG_VALA),
    Kw("transient",                       "CT_QUALIFIER",        LANG_JAVA \cup LANG_ECMA),
    Kw("true",                            "CT_WORD",             LANG_ALL),
    Kw("try",                             "CT_TRY",              LANG_CPP \cup LANG_CS \cup LANG_D \cup LANG_JAVA \cup LANG_ECMA \cup LANG_VALA),
    Kw("tryinclude",                      "CT_PP_INCLUDE",       LANG_PAWN \cup FLAG_PP),
    Kw("typedef",                         "CT_TYPEDEF",          LANG_C \cup LANG_CPP \cup LANG_OC \cup LANG_D),
    Kw("typeid",                          "CT_SIZEOF",           LANG_CPP \cup LANG_D),
    Kw("typename",                        "CT_TYPENAME",         LANG_CPP),
    Kw("typeof",                          "CT_DECLTYPE",         LANG_C \cup LANG_CPP),
    Kw("typeof",                          "CT_SIZEOF",           LANG_CS \cup LANG_D \cup LANG_VALA \cup LANG_ECMA),
    Kw("ubyte",                           "CT_TYPE",             LANG_D),
    Kw("ucent",                           "CT_TYPE",             LANG_D),
    Kw("uint",                            "CT_TYPE",             LANG_CS \cup LANG_VALA \cup LANG_D),
    Kw("ulong",                           "CT_TYPE",             LANG_CS \cup LANG_VALA \cup LANG_D),
    Kw("unchecked",                       "CT_QUALIFIER",        LANG_CS),
    Kw("undef",                           "CT_PP_UNDEF",         LANG_ALL \cup FLAG_PP),
    Kw("union",                           "CT_UNION",            LANG_C \cup LANG_CPP \cup LANG_D),
    Kw("unittest",                        "CT_UNITTEST",         LANG_D),
    Kw("unsafe",                          "CT_UNSAFE",           LANG_CS),
    Kw("unsafe_unretained",               "CT_QUALIFIER",        LANG_OC),
    Kw("unsigned",                        "CT_TYPE",             LANG_C \cup LANG_CPP),
    Kw("ushort",                          "CT_TYPE",             LANG_CS \cup LANG_VALA \cup LANG_D),
    Kw("using",                           "CT_USING",            LANG_CPP \cup LANG_CS \cup LANG_VALA),
    Kw("var",                             "CT_TYPE",             LANG_CS \cup LANG_VALA \cup LANG_ECMA),
    Kw("version",                         "CT_D_VERSION",        LANG_D),
    Kw("virtual",                         "CT_QUALIFIER",        LANG_CPP \cup LANG_CS \cup LANG_VALA),
    Kw("void",                            "CT_TYPE",             LANG_ALLC),
    Kw("volatile",                        "CT_QUALIFIER",        LANG_C \cup LANG_CPP \cup LANG_CS \cup LANG_JAVA \cup LANG_ECMA),
    Kw("volatile",                        "CT_VOLATILE",         LANG_D),
    Kw("wchar",                           "CT_TYPE",             LANG_D),
    Kw("wchar_t",                         "CT_TYPE",             LANG_C \cup LANG_CPP),
    Kw("weak",                            "CT_QUALIFIER",        LANG_VALA),
    Kw("when",                            "CT_WHEN",             LANG_CS),
    Kw("where",                           "CT_WHERE",            LANG_CS),
    Kw("while",                           "CT_WHILE",            LANG_ALL),
    Kw("with",                            "CT_D_WITH",           LANG_D \cup LANG_ECMA),
    Kw("xor",                             "CT_SARITH",           LANG_CPP),
    Kw("xor_eq",                          "CT_SASSIGN",          LANG_CPP)
  >>

\* ARRAY_SIZE(keywords)
keywords_count == Len(keywords)

-----------------------------------------------------------------------------
(* Token kinds and pointers.                                               *)

CT_NONE == "CT_NONE"
CT_WORD == "CT_WORD"
CT_TYPE == "CT_TYPE"
CT_PREPROC == "CT_PREPROC"
CT_PP_DEFINE == "CT_PP_DEFINE"
CT_PP_IF == "CT_PP_IF"
CT_PP_PRAGMA == "CT_PP_PRAGMA"
CT_MACRO_OPEN == "CT_MACRO_OPEN"
CT_MACRO_CLOSE == "CT_MACRO_CLOSE"
CT_MACRO_ELSE == "CT_MACRO_ELSE"

\* a null chunk_tag_t pointer; an entry of keyword_for_lang[] is its index >= 1
nullptr == 0

\* exit statuses (sysexits.h); Running: exit() was not called
EX_OK == "EX_OK"
EX_SOFTWARE == "EX_SOFTWARE"
EX_IOERR == "EX_IOERR"
Running == "running"

-----------------------------------------------------------------------------
(* Strings.                                                                *)

\* the string literals of the program and of its callers, with their bytes
StringLiterals ==
  {
    <<"@autoreleasepool",                <<64, 97, 117, 116, 111, 114, 101, 108, 101, 97, 115, 101, 112, 111, 111, 108>>>>,
    <<"@available",                      <<64, 97, 118, 97, 105, 108, 97, 98, 108, 101>>>>,
    <<"@catch",                          <<64, 99, 97, 116, 99, 104>>>>,
    <<"@dynamic",                        <<64, 100, 121, 110, 97, 109, 105, 99>>>>,
    <<"@end",                            <<64, 101, 110, 100>>>>,
    <<"@finally",                        <<64, 102, 105, 110, 97, 108, 108, 121>>>>,
    <<"@implementation",                 <<64, 105, 109, 112, 108, 101, 109, 101, 110, 116, 97, 116, 105, 111, 110>>>>,
    <<"@interface",                      <<64, 105, 110, 116, 101, 114, 102, 97, 99, 101>>>>,
    <<"@private",                        <<64, 112, 114, 105, 118, 97, 116, 101>>>>,
    <<"@property",                       <<64, 112, 114, 111, 112, 101, 114, 116, 121>>>>,
    <<"@protected",                      <<64, 112, 114, 111, 116, 101, 99, 116, 101, 100>>>>,
    <<"@protocol",                       <<64, 112, 114, 111, 116, 111, 99, 111, 108>>>>,
    <<"@public",                         <<64, 112, 117, 98, 108, 105, 99>>>>,
    <<"@selector",                       <<64, 115, 101, 108, 101, 99, 116, 111, 114>>>>,
    <<"@synchronized",                   <<64, 115, 121, 110, 99, 104, 114, 111, 110, 105, 122, 101, 100>>>>,
    <<"@synthesize",                     <<64, 115, 121, 110, 116, 104, 101, 115, 105, 122, 101>>>>,
    <<"@throw",                          <<64, 116, 104, 114, 111, 119>>>>,
    <<"@try",                            <<64, 116, 114, 121>>>>,
    <<"API_AVAILABLE",                   <<65, 80, 73, 95, 65, 86, 65, 73, 76, 65, 66, 76, 69>>>>,
    <<"API_DEPRECATED",                  <<65, 80, 73, 95, 68, 69, 80, 82, 69, 67, 65, 84, 69, 68>>>>,
    <<"API_DEPRECATED_WITH_REPLACEMENT", <<65, 80, 73, 95, 68, 69, 80, 82, 69, 67, 65, 84, 69, 68, 95, 87, 73, 84, 72, 95, 82, 69, 80, 76, 65, 67, 69, 77, 69, 78, 84>>>>,
    <<"API_UNAVAILABLE",                 <<65, 80, 73, 95, 85, 78, 65, 86, 65, 73, 76, 65, 66, 76, 69>>>>,
    <<"BOOL",                            <<66, 79, 79, 76>>>>,
    <<"INT16_C",                         <<73, 78, 84, 49, 54, 95, 67>>>>,
    <<"INT32_C",                         <<73, 78, 84, 51, 50, 95, 67>>>>,
    <<"INT64_C",                         <<73, 78, 84, 54, 52, 95, 67>>>>,
    <<"INT8_C",                          <<73, 78, 84, 56, 95, 67>>>>,
    <<"INTMAX_C",                        <<73, 78, 84, 77, 65, 88, 95, 67>>>>,
    <<"NS_ENUM",                         <<78, 83, 95, 69, 78, 85, 77>>>>,
    <<"NS_OPTIONS",                      <<78, 83, 95, 79, 80, 84, 73, 79, 78, 83>>>>,
    <<"Q_EMIT",                          <<81, 95, 69, 77, 73, 84>>>>,
    <<"Q_FOREACH",                       <<81, 95, 70, 79, 82, 69, 65, 67, 72>>>>,
    <<"Q_FOREVER",                       <<81, 95, 70, 79, 82, 69, 86, 69, 82>>>>,
    <<"Q_GADGET",                        <<81, 95, 71, 65, 68, 71, 69, 84>>>>,
    <<"Q_OBJECT",                        <<81, 95, 79, 66, 74, 69, 67, 84>>>>,
    <<"Q_SIGNALS",                       <<81, 95, 83, 73, 71, 78, 65, 76, 83>>>>,
    <<"UINT16_C",                        <<85, 73, 78, 84, 49, 54, 95, 67>>>>,
    <<"UINT32_C",                        <<85, 73, 78, 84, 51, 50, 95, 67>>>>,
    <<"UINT64_C",                        <<85, 73, 78, 84, 54, 52, 95, 67>>>>,
    <<"UINT8_C",                         <<85, 73, 78, 84, 56, 95, 67>>>>,
    <<"UINTMAX_C",                       <<85, 73, 78, 84, 77, 65, 88, 95, 67>>>>,
    <<"_Bool",                           <<95, 66, 111, 111, 108>>>>,
    <<"_Complex",                        <<95, 67, 111, 109, 112, 108, 101, 120>>>>,
    <<"_Imaginary",                      <<95, 73, 109, 97, 103, 105, 110, 97, 114, 121>>>>,
    <<"_Nonnull",                        <<95, 78, 111, 110, 110, 117, 108, 108>>>>,
    <<"_Null_unspecified",               <<95, 78, 117, 108, 108, 95, 117, 110, 115, 112, 101, 99, 105, 102, 105, 101, 100>>>>,
    <<"_Nullable",                       <<95, 78, 117, 108, 108, 97, 98, 108, 101>>>>,
    <<"_Pragma",                         <<95, 80, 114, 97, 103, 109, 97>>>>,
    <<"__DI__",                          <<95, 95, 68, 73, 95, 95>>>>,
    <<"__HI__",                          <<95, 95, 72, 73, 95, 95>>>>,
    <<"__QI__",                          <<95, 95, 81, 73, 95, 95>>>>,
    <<"__SI__",                          <<95, 95, 83, 73, 95, 95>>>>,
    <<"__asm__",                         <<95, 95, 97, 115, 109, 95, 95>>>>,
    <<"__attribute__",                   <<95, 95, 97, 116, 116, 114, 105, 98, 117, 116, 101, 95, 95>>>>,
    <<"__autoreleasing",                 <<95, 95, 97, 117, 116, 111, 114, 101, 108, 101, 97, 115, 105, 110, 103>>>>,
    <<"__block",                         <<95, 95, 98, 108, 111, 99, 107>>>>,
    <<"__bridge",                        <<95, 95, 98, 114, 105, 100, 103, 101>>>>,
    <<"__bridge_retained",               <<95, 95, 98, 114, 105, 100, 103, 101, 95, 114, 101, 116, 97, 105, 110, 101, 100>>>>,
    <<"__bridge_transfer",               <<95, 95, 98, 114, 105, 100, 103, 101, 95, 116, 114, 97, 110, 115, 102, 101, 114>>>>,
    <<"__const__",                       <<95, 95, 99, 111, 110, 115, 116, 95, 95>>>>,
    <<"__declspec",                      <<95, 95, 100, 101, 99, 108, 115, 112, 101, 99>>>>,
    <<"__except",                        <<95, 95, 101, 120, 99, 101, 112, 116>>>>,
    <<"__finally",                       <<95, 95, 102, 105, 110, 97, 108, 108, 121>>>>,
    <<"__has_include",                   <<95, 95, 104, 97, 115, 95, 105, 110, 99, 108, 117, 100, 101>>>>,
    <<"__has_include_next",              <<95, 95, 104, 97, 115, 95, 105, 110, 99, 108, 117, 100, 101, 95, 110, 101, 120, 116>>>>,
    <<"__inline__",                      <<95, 95, 105, 110, 108, 105, 110, 101, 95, 95>>>>,
    <<"__nonnull",                       <<95, 95, 110, 111, 110, 110, 117, 108, 108>>>>,
    <<"__nothrow__",                     <<95, 95, 110, 111, 116, 104, 114, 111, 119, 95, 95>>>>,
    <<"__null_unspecified",              <<95, 95, 110, 117, 108, 108, 95, 117, 110, 115, 112, 101, 99, 105, 102, 105, 101, 100>>>>,
    <<"__nullable",                      <<95, 95, 110, 117, 108, 108, 97, 98, 108, 101>>>>,
    <<"__pragma",                        <<95, 95, 112, 114, 97, 103, 109, 97>>>>,
    <<"__restrict",                      <<95, 95, 114, 101, 115, 116, 114, 105, 99, 116>>>>,
    <<"__signed__",                      <<95, 95, 115, 105, 103, 110, 101, 100, 95, 95>>>>,
    <<"__strong",                        <<95, 95, 115, 116, 114, 111, 110, 103>>>>,
    <<"__thread",                        <<95, 95, 116, 104, 114, 101, 97, 100>>>>,
    <<"__traits",                        <<95, 95, 116, 114, 97, 105, 116, 115>>>>,
    <<"__try",                           <<95, 95, 116, 114, 121>>>>,
    <<"__typeof",                        <<95, 95, 116, 121, 112, 101, 111, 102>>>>,
    <<"__typeof__",                      <<95, 95, 116, 121, 112, 101, 111, 102, 95, 95>>>>,
    <<"__unsafe_unretained",             <<95, 95, 117, 110, 115, 97, 102, 101, 95, 117, 110, 114, 101, 116, 97, 105, 110, 101, 100>>>>,
    <<"__unused",                        <<95, 95, 117, 110, 117, 115, 101, 100>>>>,
    <<"__volatile__",                    <<95, 95, 118, 111, 108, 97, 116, 105, 108, 101, 95, 95>>>>,
    <<"__weak",                          <<95, 95, 119, 101, 97, 107>>>>,
    <<"__word__",                        <<95, 95, 119, 111, 114, 100, 95, 95>>>>,
    <<"abstract",                        <<97, 98, 115, 116, 114, 97, 99, 116>>>>,
    <<"add",                             <<97, 100, 100>>>>,
    <<"alias",                           <<97, 108, 105, 97, 115>>>>,
    <<"align",                           <<97, 108, 105, 103, 110>>>>,
    <<"alignof",                         <<97, 108, 105, 103, 110, 111, 102>>>>,
    <<"and",                             <<97, 110, 100>>>>,
    <<"and_eq",                          <<97, 110, 100, 95, 101, 113>>>>,
    <<"as",                              <<97, 115>>>>,
    <<"asm",                             <<97, 115, 109>>>>,
    <<"assert",                          <<97, 115, 115, 101, 114, 116>>>>,
    <<"auto",                            <<97, 117, 116, 111>>>>,
    <<"base",                            <<98, 97, 115, 101>>>>,
    <<"bit",                             <<98, 105, 116>>>>,
    <<"bitand",                          <<98, 105, 116, 97, 110, 100>>>>,
    <<"bitor",                           <<98, 105, 116, 111, 114>>>>,
    <<"body",                            <<98, 111, 100, 121>>>>,
    <<"bool",                            <<98, 111, 111, 108>>>>,
    <<"boolean",                         <<98, 111, 111, 108, 101, 97, 110>>>>,
    <<"break",                           <<98, 114, 101, 97, 107>>>>,
    <<"byte",                            <<98, 121, 116, 101>>>>,
    <<"callback",                        <<99, 97, 108, 108, 98, 97, 99, 107>>>>,
    <<"case",                            <<99, 97, 115, 101>>>>,
    <<"cast",                            <<99, 97, 115, 116>>>>,
    <<"catch",                           <<99, 97, 116, 99, 104>>>>,
    <<"cdouble",                         <<99, 100, 111, 117, 98, 108, 101>>>>,
    <<"cent",                            <<99, 101, 110, 116>>>>,
    <<"cfloat",                          <<99, 102, 108, 111, 97, 116>>>>,
    <<"char",                            <<99, 104, 97, 114>>>>,
    <<"checked",                         <<99, 104, 101, 99, 107, 101, 100>>>>,
    <<"class",                           <<99, 108, 97, 115, 115>>>>,
    <<"compl",                           <<99, 111, 109, 112, 108>>>>,
    <<"const",                           <<99, 111, 110, 115, 116>>>>,
    <<"const_cast",                      <<99, 111, 110, 115, 116, 95, 99, 97, 115, 116>>>>,
    <<"constexpr",                       <<99, 111, 110, 115, 116, 101, 120, 112, 114>>>>,
    <<"construct",                       <<99, 111, 110, 115, 116, 114, 117, 99, 116>>>>,
    <<"continue",                        <<99, 111, 110, 116, 105, 110, 117, 101>>>>,
    <<"creal",                           <<99, 114, 101, 97, 108>>>>,
    <<"dchar",                           <<100, 99, 104, 97, 114>>>>,
    <<"debug",                           <<100, 101, 98, 117, 103>>>>,
    <<"debugger",                        <<100, 101, 98, 117, 103, 103, 101, 114>>>>,
    <<"decltype",                        <<100, 101, 99, 108, 116, 121, 112, 101>>>>,
    <<"default",                         <<100, 101, 102, 97, 117, 108, 116>>>>,
    <<"define",                          <<100, 101, 102, 105, 110, 101>>>>,
    <<"defined",                         <<100, 101, 102, 105, 110, 101, 100>>>>,
    <<"delegate",                        <<100, 101, 108, 101, 103, 97, 116, 101>>>>,
    <<"delete",                          <<100, 101, 108, 101, 116, 101>>>>,
    <<"deprecated",                      <<100, 101, 112, 114, 101, 99, 97, 116, 101, 100>>>>,
    <<"do",                              <<100, 111>>>>,
    <<"double",                          <<100, 111, 117, 98, 108, 101>>>>,
    <<"dynamic_cast",                    <<100, 121, 110, 97, 109, 105, 99, 95, 99, 97, 115, 116>>>>,
    <<"elif",                            <<101, 108, 105, 102>>>>,
    <<"else",                            <<101, 108, 115, 101>>>>,
    <<"elseif",                          <<101, 108, 115, 101, 105, 102>>>>,
    <<"emit",                            <<101, 109, 105, 116>>>>,
    <<"endif",                           <<101, 110, 100, 105, 102>>>>,
    <<"endinput",                        <<101, 110, 100, 105, 110, 112, 117, 116>>>>,
    <<"endregion",                       <<101, 110, 100, 114, 101, 103, 105, 111, 110>>>>,
    <<"endscript",                       <<101, 110, 100, 115, 99, 114, 105, 112, 116>>>>,
    <<"enum",                            <<101, 110, 117, 109>>>>,
    <<"error",                           <<101, 114, 114, 111, 114>>>>,
    <<"errordomain",                     <<101, 114, 114, 111, 114, 100, 111, 109, 97, 105, 110>>>>,
    <<"event",                           <<101, 118, 101, 110, 116>>>>,
    <<"exit",                            <<101, 120, 105, 116>>>>,
    <<"explicit",                        <<101, 120, 112, 108, 105, 99, 105, 116>>>>,
    <<"export",                          <<101, 120, 112, 111, 114, 116>>>>,
    <<"extends",                         <<101, 120, 116, 101, 110, 100, 115>>>>,
    <<"extern",                          <<101, 120, 116, 101, 114, 110>>>>,
    <<"false",                           <<102, 97, 108, 115, 101>>>>,
    <<"file",                            <<102, 105, 108, 101>>>>,
    <<"final",                           <<102, 105, 110, 97, 108>>>>,
    <<"finally",                         <<102, 105, 110, 97, 108, 108, 121>>>>,
    <<"fixed",                           <<102, 105, 120, 101, 100>>>>,
    <<"flags",                           <<102, 108, 97, 103, 115>>>>,
    <<"float",                           <<102, 108, 111, 97, 116>>>>,
    <<"for",                             <<102, 111, 114>>>>,
    <<"foreach",                         <<102, 111, 114, 101, 97, 99, 104>>>>,
    <<"foreach_reverse",                 <<102, 111, 114, 101, 97, 99, 104, 95, 114, 101, 118, 101, 114, 115, 101>>>>,
    <<"forward",                         <<102, 111, 114, 119, 97, 114, 100>>>>,
    <<"friend",                          <<102, 114, 105, 101, 110, 100>>>>,
    <<"function",                        <<102, 117, 110, 99, 116, 105, 111, 110>>>>,
    <<"get",                             <<103, 101, 116>>>>,
    <<"goto",                            <<103, 111, 116, 111>>>>,
    <<"idouble",                         <<105, 100, 111, 117, 98, 108, 101>>>>,
    <<"if",                              <<105, 102>>>>,
    <<"ifdef",                           <<105, 102, 100, 101, 102>>>>,
    <<"ifloat",                          <<105, 102, 108, 111, 97, 116>>>>,
    <<"ifndef",                          <<105, 102, 110, 100, 101, 102>>>>,
    <<"implements",                      <<105, 109, 112, 108, 101, 109, 101, 110, 116, 115>>>>,
    <<"implicit",                        <<105, 109, 112, 108, 105, 99, 105, 116>>>>,
    <<"import",                          <<105, 109, 112, 111, 114, 116>>>>,
    <<"in",                              <<105, 110>>>>,
    <<"include",                         <<105, 110, 99, 108, 117, 100, 101>>>>,
    <<"inline",                          <<105, 110, 108, 105, 110, 101>>>>,
    <<"inout",                           <<105, 110, 111, 117, 116>>>>,
    <<"instanceof",                      <<105, 110, 115, 116, 97, 110, 99, 101, 111, 102>>>>,
    <<"int",                             <<105, 110, 116>>>>,
    <<"interface",                       <<105, 110, 116, 101, 114, 102, 97, 99, 101>>>>,
    <<"internal",                        <<105, 110, 116, 101, 114, 110, 97, 108>>>>,
    <<"invariant",                       <<105, 110, 118, 97, 114, 105, 97, 110, 116>>>>,
    <<"ireal",                           <<105, 114, 101, 97, 108>>>>,
    <<"is",                              <<105, 115>>>>,
    <<"lazy",                            <<108, 97, 122, 121>>>>,
    <<"line",                            <<108, 105, 110, 101>>>>,
    <<"lock",                            <<108, 111, 99, 107>>>>,
    <<"long",                            <<108, 111, 110, 103>>>>,
    <<"macro",                           <<109, 97, 99, 114, 111>>>>,
    <<"mixin",                           <<109, 105, 120, 105, 110>>>>,
    <<"module",                          <<109, 111, 100, 117, 108, 101>>>>,
    <<"mutable",                         <<109, 117, 116, 97, 98, 108, 101>>>>,
    <<"namespace",                       <<110, 97, 109, 101, 115, 112, 97, 99, 101>>>>,
    <<"native",                          <<110, 97, 116, 105, 118, 101>>>>,
    <<"new",                             <<110, 101, 119>>>>,
    <<"noexcept",                        <<110, 111, 101, 120, 99, 101, 112, 116>>>>,
    <<"nonnull",                         <<110, 111, 110, 110, 117, 108, 108>>>>,
    <<"not",                             <<110, 111, 116>>>>,
    <<"not_eq",                          <<110, 111, 116, 95, 101, 113>>>>,
    <<"null_resettable",                 <<110, 117, 108, 108, 95, 114, 101, 115, 101, 116, 116, 97, 98, 108, 101>>>>,
    <<"null_unspecified",                <<110, 117, 108, 108, 95, 117, 110, 115, 112, 101, 99, 105, 102, 105, 101, 100>>>>,
    <<"nullable",                        <<110, 117, 108, 108, 97, 98, 108, 101>>>>,
    <<"object",                          <<111, 98, 106, 101, 99, 116>>>>,
    <<"operator",                        <<111, 112, 101, 114, 97, 116, 111, 114>>>>,
    <<"or",                              <<111, 114>>>>,
    <<"or_eq",                           <<111, 114, 95, 101, 113>>>>,
    <<"out",                             <<111, 117, 116>>>>,
    <<"override",                        <<111, 118, 101, 114, 114, 105, 100, 101>>>>,
    <<"package",                         <<112, 97, 99, 107, 97, 103, 101>>>>,
    <<"params",                          <<112, 97, 114, 97, 109, 115>>>>,
    <<"pragma",                          <<112, 114, 97, 103, 109, 97>>>>,
    <<"private",                         <<112, 114, 105, 118, 97, 116, 101>>>>,
    <<"property",                        <<112, 114, 111, 112, 101, 114, 116, 121>>>>,
    <<"protected",                       <<112, 114, 111, 116, 101, 99, 116, 101, 100>>>>,
    <<"public",                          <<112, 117, 98, 108, 105, 99>>>>,
    <<"readonly",                        <<114, 101, 97, 100, 111, 110, 108, 121>>>>,
    <<"real",                            <<114, 101, 97, 108>>>>,
    <<"ref",                             <<114, 101, 102>>>>,
    <<"region",                          <<114, 101, 103, 105, 111, 110>>>>,
    <<"register",                        <<114, 101, 103, 105, 115, 116, 101, 114>>>>,
    <<"reinterpret_cast",                <<114, 101, 105, 110, 116, 101, 114, 112, 114, 101, 116, 95, 99, 97, 115, 116>>>>,
    <<"remove",                          <<114, 101, 109, 111, 118, 101>>>>,
    <<"restrict",                        <<114, 101, 115, 116, 114, 105, 99, 116>>>>,
    <<"return",                          <<114, 101, 116, 117, 114, 110>>>>,
    <<"sbyte",                           <<115, 98, 121, 116, 101>>>>,
    <<"scope",                           <<115, 99, 111, 112, 101>>>>,
    <<"sealed",                          <<115, 101, 97, 108, 101, 100>>>>,
    <<"section",                         <<115, 101, 99, 116, 105, 111, 110>>>>,
    <<"self",                            <<115, 101, 108, 102>>>>,
    <<"set",                             <<115, 101, 116>>>>,
    <<"short",                           <<115, 104, 111, 114, 116>>>>,
    <<"signal",                          <<115, 105, 103, 110, 97, 108>>>>,
    <<"signals",                         <<115, 105, 103, 110, 97, 108, 115>>>>,
    <<"signed",                          <<115, 105, 103, 110, 101, 100>>>>,
    <<"size_t",                          <<115, 105, 122, 101, 95, 116>>>>,
    <<"sizeof",                          <<115, 105, 122, 101, 111, 102>>>>,
    <<"sleep",                           <<115, 108, 101, 101, 112>>>>,
    <<"stackalloc",                      <<115, 116, 97, 99, 107, 97, 108, 108, 111, 99>>>>,
    <<"state",                           <<115, 116, 97, 116, 101>>>>,
    <<"static",                          <<115, 116, 97, 116, 105, 99>>>>,
    <<"static_cast",                     <<115, 116, 97, 116, 105, 99, 95, 99, 97, 115, 116>>>>,
    <<"stock",                           <<115, 116, 111, 99, 107>>>>,
    <<"strictfp",                        <<115, 116, 114, 105, 99, 116, 102, 112>>>>,
    <<"string",                          <<115, 116, 114, 105, 110, 103>>>>,
    <<"struct",                          <<115, 116, 114, 117, 99, 116>>>>,
    <<"super",                           <<115, 117, 112, 101, 114>>>>,
    <<"switch",                          <<115, 119, 105, 116, 99, 104>>>>,
    <<"synchronized",                    <<115, 121, 110, 99, 104, 114, 111, 110, 105, 122, 101, 100>>>>,
    <<"tagof",                           <<116, 97, 103, 111, 102>>>>,
    <<"template",                        <<116, 101, 109, 112, 108, 97, 116, 101>>>>,
    <<"this",                            <<116, 104, 105, 115>>>>,
    <<"throw",                           <<116, 104, 114, 111, 119>>>>,
    <<"throws",                          <<116, 104, 114, 111, 119, 115>>>>,
    <<"transient",                       <<116, 114, 97, 110, 115, 105, 101, 110, 116>>>>,
    <<"true",                            <<116, 114, 117, 101>>>>,
    <<"try",                             <<116, 114, 121>>>>,
    <<"tryinclude",                      <<116, 114, 121, 105, 110, 99, 108, 117, 100, 101>>>>,
    <<"typedef",                         <<116, 121, 112, 101, 100, 101, 102>>>>,
    <<"typeid",                          <<116, 121, 112, 101, 105, 100>>>>,
    <<"typename",                        <<116, 121, 112, 101, 110, 97, 109, 101>>>>,
    <<"typeof",                          <<116, 121, 112, 101, 111, 102>>>>,
    <<"ubyte",                           <<117, 98, 121, 116, 101>>>>,
    <<"ucent",                           <<117, 99, 101, 110, 116>>>>,
    <<"uint",                            <<117, 105, 110, 116>>>>,
    <<"ulong",                           <<117, 108, 111, 110, 103>>>>,
    <<"unchecked",                       <<117, 110, 99, 104, 101, 99, 107, 101, 100>>>>,
    <<"undef",                           <<117, 110, 100, 101, 102>>>>,
    <<"union",                           <<117, 110, 105, 111, 110>>>>,
    <<"unittest",                        <<117, 110, 105, 116, 116, 101, 115, 116>>>>,
    <<"unsafe",                          <<117, 110, 115, 97, 102, 101>>>>,
    <<"unsafe_unretained",               <<117, 110, 115, 97, 102, 101, 95, 117, 110, 114, 101, 116, 97, 105, 110, 101, 100>>>>,
    <<"unsigned",                        <<117, 110, 115, 105, 103, 110, 101, 100>>>>,
    <<"ushort",                          <<117, 115, 104, 111, 114, 116>>>>,
    <<"using",                           <<117, 115, 105, 110, 103>>>>,
    <<"var",                             <<118, 97, 114>>>>,
    <<"version",                         <<118, 101, 114, 115, 105, 111, 110>>>>,
    <<"virtual",                         <<118, 105, 114, 116, 117, 97, 108>>>>,
    <<"void",                            <<118, 111, 105, 100>>>>,
    <<"volatile",                        <<118, 111, 108, 97, 116, 105, 108, 101>>>>,
    <<"wchar",                           <<119, 99, 104, 97, 114>>>>,
    <<"wchar_t",                         <<119, 99, 104, 97, 114, 95, 116>>>>,
    <<"weak",                            <<119, 101, 97, 107>>>>,
    <<"when",                            <<119, 104, 101, 110>>>>,
    <<"where",                           <<119, 104, 101, 114, 101>>>>,
    <<"while",                           <<119, 104, 105, 108, 101>>>>,
    <<"with",                            <<119, 105, 116, 104>>>>,
    <<"xor",                             <<120, 111, 114>>>>,
    <<"xor_eq",                          <<120, 111, 114, 95, 101, 113>>>>,
    <<"zzzzznotaword",                   <<122, 122, 122, 122, 122, 110, 111, 116, 97, 119, 111, 114, 100>>>>,
    <<"IF",                              <<73, 70>>>>,
    <<"foo",                             <<102, 111, 111>>>>,
    <<"bar",                                <<98, 97, 114>>>>,
    <<"123abc",                             <<49, 50, 51, 97, 98, 99>>>>,
    <<"# comment",                          <<35, 32, 99, 111, 109, 109, 101, 110, 116>>>>,
    <<"bar # trailing",                     <<98, 97, 114, 32, 35, 32, 116, 114, 97, 105, 108, 105, 110, 103>>>>,
    <<"foo bar",                            <<102, 111, 111, 32, 98, 97, 114>>>>,
    <<"if#x",                               <<105, 102, 35, 120>>>>,
    <<"custom type ",                       <<99, 117, 115, 116, 111, 109, 32, 116, 121, 112, 101, 32>>>>,
    <<"macro-open ",                        <<109, 97, 99, 114, 111, 45, 111, 112, 101, 110, 32>>>>,
    <<"macro-close ",                       <<109, 97, 99, 114, 111, 45, 99, 108, 111, 115, 101, 32>>>>,
    <<"macro-else ",                        <<109, 97, 99, 114, 111, 45, 101, 108, 115, 101, 32>>>>,
    <<"set ",                               <<115, 101, 116, 32>>>>,
    <<"WORD",                               <<87, 79, 82, 68>>>>,
    <<"NONE",                               <<78, 79, 78, 69>>>>,
    <<"PREPROC",                            <<80, 82, 69, 80, 82, 79, 67>>>>
  }

CharsOf == [s \in {p[1] : p \in StringLiterals} |-> (CHOOSE p \in StringLiterals : p[1] = s)[2]]

\* the bytes of the string literal s
chars(s) == CharsOf[s]

\* strcmp: the sign of the first differing byte pair, a string that has
\* ended reading as the byte 0; the comparison stops at the first index
\* where the bytes differ or the strings have ended
strcmp(s1, s2) ==
  LET c1(i)  == IF i <= Len(s1) THEN s1[i] ELSE 0
      c2(i)  == IF i <= Len(s2) THEN s2[i] ELSE 0
      short  == IF Len(s1) <= Len(s2) THEN Len(s1) ELSE Len(s2)
      stop   == CHOOSE i \in 1..(short + 1) :
                  /\ c1(i) # c2(i) \/ c1(i) = 0
                  /\ \A j \in 1..(i - 1) : s1[j] = s2[j]
  IN  IF c1(stop) < c2(stop) THEN -1
      ELSE IF c1(stop) > c2(stop) THEN 1
      ELSE 0

\* the string s with its upper case letters made lower case
ToLower(s) == [i \in DOMAIN s |-> IF s[i] >= 65 /\ s[i] <= 90 THEN s[i] + 32 ELSE s[i]]

\* the case of the letters is ignored
kw_compare_nocase(p1, p2) == strcmp(ToLower(p1.tag), ToLower(p2.tag))

\* kw_compare on two entries whose tags are given by their bytes
kw_compare(p1, p2) == strcmp(p1.tag, p2.tag)

\* the entry p with its tag read
Deref(p) == [tag |-> chars(p.tag)]

\* std::string(word, len)
string(word, len) == SubSeq(word, 1, len)

-----------------------------------------------------------------------------
(* init_keywords_for_language                                              *)

\* uncrustify::limits::MAX_KEYWORDS, the number of entries keyword_for_lang[]
\* has room for: the table of keywords is known to fit
MAX_KEYWORDS == keywords_count

\* keyword_for_lang[i] = e, for i at most one past the entries kept
Store(arr, i, e) == IF i <= Len(arr) THEN [arr EXCEPT ![i] = e] ELSE Append(arr, e)

\* F(v), with v evaluated once
Then(v, F(_)) == CHOOSE r \in {F(x) : x \in {v}} : TRUE

\* the flags are tested for equality
init_step_equal(st, local_flags, idx) ==
  LET tag == keywords[idx]
  IN  IF tag.lang_flags = local_flags
        THEN [keyword_for_lang |->
                Store(st.keyword_for_lang, st.language_count + 1,
                      Kw(tag.tag, tag.type, tag.lang_flags)),
              language_count |-> st.language_count + 1]
        ELSE st

\* the entry is kept when it has every one of the flags
init_step_contains(st, local_flags, idx) ==
  LET tag == keywords[idx]
  IN  IF local_flags \subseteq tag.lang_flags
        THEN [keyword_for_lang |->
                Store(st.keyword_for_lang, st.language_count + 1,
                      Kw(tag.tag, tag.type, tag.lang_flags)),
              language_count |-> st.language_count + 1]
        ELSE st

\* one pass of the loop body, for keywords[idx]
init_step(st, local_flags, idx) ==
  LET tag == keywords[idx]
  IN  IF (tag.lang_flags \cap local_flags) # {}
        THEN [keyword_for_lang |->
                Store(st.keyword_for_lang, st.language_count + 1,
                      Kw(tag.tag, tag.type, tag.lang_flags)),
              language_count |-> st.language_count + 1]
        ELSE st

\* the passes are made for idx = hi, ..., lo
RECURSIVE init_loop_reverse(_, _, _, _)
init_loop_reverse(st, local_flags, lo, hi) ==
  IF lo > hi THEN st
  ELSE IF lo = hi THEN init_step(st, local_flags, lo)
  ELSE LET mid == (lo + hi) \div 2
       IN  Then(init_loop_reverse(st, local_flags, mid + 1, hi),
                LAMBDA half : init_loop_reverse(half, local_flags, lo, mid))

\* the passes of the loop for idx = lo, ..., hi, in this order (the range is
\* halved to keep the evaluation shallow)
RECURSIVE init_loop(_, _, _, _)
init_loop(st, local_flags, lo, hi) ==
  IF lo > hi THEN st
  ELSE IF lo = hi THEN init_step(st, local_flags, lo)
  ELSE LET mid == (lo + hi) \div 2
       IN  Then(init_loop(st, local_flags, lo, mid),
                LAMBDA half : init_loop(half, local_flags, mid + 1, hi))

\* language_count is not reset: the entries are appended to the old ones
init_keywords_for_language_append(arr, count, local_flags) ==
  LET r == init_loop([keyword_for_lang |-> arr, language_count |-> count],
                       local_flags, 1, keywords_count)
  IN  [keyword_for_lang |-> SubSeq(r.keyword_for_lang, 1, r.language_count),
       language_count |-> r.language_count]

\* The result of init_keywords_for_language on keyword_for_lang[] = arr with
\* language_count = count.  Only the entries below the new language_count
\* are kept.
init_keywords_for_language(arr, count, local_flags) ==
  LET r == init_loop([keyword_for_lang |-> arr, language_count |-> 0],
                       local_flags, 1, keywords_count)
  IN  [keyword_for_lang |-> SubSeq(r.keyword_for_lang, 1, r.language_count),
       language_count |-> r.language_count]

-----------------------------------------------------------------------------
(* keywords_are_sorted                                                     *)

\* keywords[] with the entries k and k + 1 exchanged, keywords[] for k = 0
Exchanged(k) ==
  IF k = 0 THEN keywords
  ELSE [i \in 1..Len(keywords) |->
          IF i = k THEN keywords[k + 1]
          ELSE IF i = k + 1 THEN keywords[k]
          ELSE keywords[i]]

\* equal neighbours are taken as a bad sort order
sorted_test_strict(table, idx) ==
  kw_compare(Deref(table[idx - 1]), Deref(table[idx])) >= 0

\* the test of the loop body for idx (C index idx - 1)
sorted_test(table, idx) ==
  kw_compare(Deref(table[idx - 1]), Deref(table[idx])) > 0

\* the for loop for idx = lo, ..., hi in this order: the first idx whose
\* test holds, 0 if there is none (the range is halved to keep the
\* evaluation shallow)
RECURSIVE sorted_scan(_, _, _)
sorted_scan(table, lo, hi) ==
  IF lo > hi THEN 0
  ELSE IF lo = hi THEN (IF sorted_test(table, lo) THEN lo ELSE 0)
  ELSE LET mid == (lo + hi) \div 2
       IN  Then(sorted_scan(table, lo, mid),
                LAMBDA first : IF first # 0 THEN first
                               ELSE sorted_scan(table, mid + 1, hi))

\* keywords_are_sorted() over the table: it returns true, or calls
\* exit(EX_SOFTWARE) at the first pair in bad order
keywords_are_sorted(table) ==
  IF sorted_scan(table, 2, Len(table)) # 0
    THEN [result |-> "none", exit_status |-> EX_SOFTWARE]
    ELSE [result |-> "true", exit_status |-> Running]

-----------------------------------------------------------------------------
(* add_keyword, clear_keyword_file                                         *)

\* std::map::insert alone: the kind of a tag that is in the map is kept
add_keyword_insert(map, tag, type) ==
  IF tag \in DOMAIN map
    THEN map
    ELSE [t \in DOMAIN map \cup {tag} |-> IF t = tag THEN type ELSE map[t]]

add_keyword(map, tag, type) ==
  IF tag \in DOMAIN map
    THEN [map EXCEPT ![tag] = type]
    ELSE [t \in DOMAIN map \cup {tag} |-> IF t = tag THEN type ELSE map[t]]

\* an empty std::map
EmptyMap == [t \in {} |-> CT_NONE]

\* the entries are kept
clear_keep(map) == map

\* dkwm.clear()
clear(map) == EmptyMap

-----------------------------------------------------------------------------
(* find_keyword_type                                                       *)

\* language_is_set(): (cpd.lang_flags & lang) != 0
language_is_set(lang) == (cpd_lang_flags \cap lang) # {}

\* A binary search for key in keyword_for_lang[l .. u), C indices: the entry
\* found, or the null pointer
RECURSIVE binary_search(_, _, _)
binary_search(key, l, u) ==
  IF l >= u THEN nullptr
  ELSE LET idx == (l + u) \div 2
           comparison == kw_compare(key, Deref(keyword_for_lang[idx + 1]))
       IN  IF comparison < 0 THEN binary_search(key, l, idx)
           ELSE IF comparison > 0 THEN binary_search(key, idx + 1, u)
           ELSE idx + 1

\* the lowest and the highest entry of the entries around p that compare
\* equal to key
RECURSIVE equal_low(_, _)
equal_low(key, p) ==
  IF p > 1 /\ kw_compare(key, Deref(keyword_for_lang[p - 1])) = 0
    THEN equal_low(key, p - 1)
    ELSE p

RECURSIVE equal_high(_, _)
equal_high(key, p) ==
  IF p < language_count /\ kw_compare(key, Deref(keyword_for_lang[p + 1])) = 0
    THEN equal_high(key, p + 1)
    ELSE p

\* The results bsearch(&key, keyword_for_lang, language_count, ..., kw_compare)
\* may give: the null pointer when no entry compares equal to key, and
\* otherwise an entry that does, which one of them is unspecified.
bsearch(key) ==
  LET p == binary_search(key, 0, language_count)
  IN  IF p = nullptr THEN {nullptr} ELSE equal_low(key, p)..equal_high(key, p)

\* the entries before tag are not looked at
kw_static_first_stay(tag) == tag

RECURSIVE kw_static_first(_)
kw_static_first(tag) ==
  LET prev == tag - 1
  IN  IF prev >= 1 /\ strcmp(chars(keyword_for_lang[prev].tag), chars(keyword_for_lang[tag].tag)) = 0
        THEN kw_static_first(prev)
        ELSE tag

\* the preprocessor marker is not tested
kw_static_test_any_pp(iter, tag, lang_flags, in_preproc) ==
  /\ strcmp(chars(keyword_for_lang[iter].tag), chars(keyword_for_lang[tag].tag)) = 0
  /\ language_is_set(keyword_for_lang[iter].lang_flags)
  /\ (lang_flags \cap keyword_for_lang[iter].lang_flags) # {}

\* a preprocessor entry is taken in any context
kw_static_test_pp_anywhere(iter, tag, lang_flags, in_preproc) ==
  LET in_pp == in_preproc # CT_NONE /\ in_preproc # CT_PP_DEFINE
      pp_iter == (keyword_for_lang[iter].lang_flags \cap FLAG_PP) # {}
  IN  /\ strcmp(chars(keyword_for_lang[iter].tag), chars(keyword_for_lang[tag].tag)) = 0
      /\ language_is_set(keyword_for_lang[iter].lang_flags)
      /\ (lang_flags \cap keyword_for_lang[iter].lang_flags) # {}
      /\ (in_pp = pp_iter \/ pp_iter)

\* a #define counts as a directive
kw_static_test_define(iter, tag, lang_flags, in_preproc) ==
  LET in_pp == in_preproc # CT_NONE
      pp_iter == (keyword_for_lang[iter].lang_flags \cap FLAG_PP) # {}
  IN  /\ strcmp(chars(keyword_for_lang[iter].tag), chars(keyword_for_lang[tag].tag)) = 0
      /\ language_is_set(keyword_for_lang[iter].lang_flags)
      /\ (lang_flags \cap keyword_for_lang[iter].lang_flags) # {}
      /\ in_pp = pp_iter

\* the language flags of the entry are not tested
kw_static_test_any_lang(iter, tag, lang_flags, in_preproc) ==
  LET in_pp == in_preproc # CT_NONE /\ in_preproc # CT_PP_DEFINE
      pp_iter == (keyword_for_lang[iter].lang_flags \cap FLAG_PP) # {}
  IN  /\ strcmp(chars(keyword_for_lang[iter].tag), chars(keyword_for_lang[tag].tag)) = 0
      /\ in_pp = pp_iter

\* the test of the loop body of kw_static_match for the entry iter
kw_static_test(iter, tag, lang_flags, in_preproc) ==
  LET in_pp == in_preproc # CT_NONE /\ in_preproc # CT_PP_DEFINE
      pp_iter == (keyword_for_lang[iter].lang_flags \cap FLAG_PP) # {}
  IN  /\ strcmp(chars(keyword_for_lang[iter].tag), chars(keyword_for_lang[tag].tag)) = 0
      /\ language_is_set(keyword_for_lang[iter].lang_flags)
      /\ (lang_flags \cap keyword_for_lang[iter].lang_flags) # {}
      /\ in_pp = pp_iter

\* the for loop of kw_static_match with orig_list = false, for iter = lo, ...,
\* hi in this order: the first entry that passes the test, or the null
\* pointer (the range is halved to keep the evaluation shallow)
RECURSIVE kw_static_scan(_, _, _, _, _)
kw_static_scan(lo, hi, tag, lang_flags, in_preproc) ==
  IF lo > hi THEN nullptr
  ELSE IF lo = hi
    THEN IF kw_static_test(lo, tag, lang_flags, in_preproc) THEN lo ELSE nullptr
  ELSE LET mid == (lo + hi) \div 2
       IN  Then(kw_static_scan(lo, mid, tag, lang_flags, in_preproc),
                LAMBDA l : IF l # nullptr THEN l
                           ELSE kw_static_scan(mid + 1, hi, tag, lang_flags, in_preproc))

\* only the first entry with the tag is tested
kw_static_match_first_only(tag, lang_flags, in_preproc) ==
  LET first == kw_static_first(tag)
  IN  IF kw_static_test(first, tag, lang_flags, in_preproc) THEN first ELSE nullptr

\* kw_static_match(false, tag, lang_flags), cpd.in_preproc being in_preproc
kw_static_match(tag, lang_flags, in_preproc) ==
  kw_static_scan(kw_static_first(tag), language_count, tag, lang_flags, in_preproc)

\* the entries kw_static_first(tag) reads through prev, were prev not
\* tested against the start of keyword_for_lang[]
kw_static_first_reads_no_bound(tag) == (kw_static_first(tag) - 1)..(tag - 1)

\* the entries kw_static_first(tag) reads through prev: prev is tested
\* against the start of keyword_for_lang[] before prev->tag is read
RECURSIVE kw_static_first_reads(_)
kw_static_first_reads(tag) ==
  LET prev == tag - 1
  IN  IF prev >= 1
        THEN {prev} \cup
               (IF strcmp(chars(keyword_for_lang[prev].tag), chars(keyword_for_lang[tag].tag)) = 0
                  THEN kw_static_first_reads(prev)
                  ELSE {})
        ELSE {}

\* the entries the for loop of kw_static_match(false, tag, lang_flags) reads
\* through iter: those from kw_static_first(tag) up to the entry returned,
\* and up to the last one below &keyword_for_lang[language_count] when the
\* null pointer is returned
kw_static_match_reads(tag, lang_flags, in_preproc) ==
  LET first == kw_static_first(tag)
      p_ret == kw_static_scan(first, language_count, tag, lang_flags, in_preproc)
  IN  first..(IF p_ret # nullptr THEN p_ret ELSE language_count)

\* cpd.in_preproc is left alone
prime_preproc_never(p_ret) == cpd_in_preproc

\* the tag of the entry bsearch() gave is not looked at
prime_preproc_found(p_ret) == IF p_ret # nullptr THEN CT_PREPROC ELSE cpd_in_preproc

\* cpd.in_preproc after the test of the entry bsearch() gave
prime_preproc(p_ret) ==
  IF /\ p_ret # nullptr
     /\ \/ strcmp(chars(keyword_for_lang[p_ret].tag), chars("__pragma")) = 0
        \/ strcmp(chars(keyword_for_lang[p_ret].tag), chars("_Pragma")) = 0
    THEN CT_PREPROC
    ELSE cpd_in_preproc

\* the entries are tested before cpd.in_preproc is set
static_lookup_filter_first(found) ==
  LET in_preproc == prime_preproc(found)
      p_ret == IF found # nullptr
                 THEN kw_static_match(found, cpd_lang_flags, cpd_in_preproc)
                 ELSE nullptr
  IN  [type |-> IF p_ret # nullptr THEN keyword_for_lang[p_ret].type ELSE CT_WORD,
       in_preproc |-> in_preproc,
       found |-> found]

\* The second half of find_keyword_type, when bsearch() gave found: the kind
\* returned and the value cpd.in_preproc is left with.
static_lookup(found) ==
  LET in_preproc == prime_preproc(found)
      p_ret == IF found # nullptr
                 THEN kw_static_match(found, cpd_lang_flags, in_preproc)
                 ELSE nullptr
  IN  [type |-> IF p_ret # nullptr THEN keyword_for_lang[p_ret].type ELSE CT_WORD,
       in_preproc |-> in_preproc,
       found |-> found]

\* the entries of keyword_for_lang[] find_keyword_type(word, len) reads in
\* kw_static_first and in the loop of kw_static_match, when bsearch() gives
\* found
scan_reads(word, len, found) ==
  IF len <= 0 \/ string(word, len) \in DOMAIN dkwm \/ found = nullptr
    THEN [first |-> {}, match |-> {}]
    ELSE [first |-> kw_static_first_reads(found),
          match |-> kw_static_match_reads(found, cpd_lang_flags, prime_preproc(found))]

\* the static word list is consulted before the dynamic one
find_keyword_type_static_first(word, len, found) ==
  LET ss == string(word, len)
      r == static_lookup(found)
  IN  IF len <= 0
        THEN [type |-> CT_NONE, in_preproc |-> cpd_in_preproc, found |-> nullptr]
      ELSE IF r.type # CT_WORD THEN r
      ELSE IF ss \in DOMAIN dkwm
        THEN [type |-> dkwm[ss], in_preproc |-> cpd_in_preproc, found |-> nullptr]
      ELSE r

\* the length is not tested
find_keyword_type_any_len(word, len, found) ==
  LET ss == string(word, len)
  IN  IF ss \in DOMAIN dkwm
        THEN [type |-> dkwm[ss], in_preproc |-> cpd_in_preproc, found |-> nullptr]
        ELSE static_lookup(found)

\* an empty word is a plain word
find_keyword_type_empty_word(word, len, found) ==
  LET ss == string(word, len)
  IN  IF len <= 0
        THEN [type |-> CT_WORD, in_preproc |-> cpd_in_preproc, found |-> nullptr]
      ELSE IF ss \in DOMAIN dkwm
        THEN [type |-> dkwm[ss], in_preproc |-> cpd_in_preproc, found |-> nullptr]
      ELSE static_lookup(found)

\* cpd.in_preproc is set for the word before the dynamic word list answers
find_keyword_type_prime_first(word, len, found) ==
  LET ss == string(word, len)
  IN  IF len <= 0
        THEN [type |-> CT_NONE, in_preproc |-> cpd_in_preproc, found |-> nullptr]
      ELSE IF ss \in DOMAIN dkwm
        THEN [type |-> dkwm[ss], in_preproc |-> prime_preproc(found), found |-> nullptr]
      ELSE static_lookup(found)

\* find_keyword_type(word, len), when bsearch(), if it is called, gives
\* found: the kind returned, the value cpd.in_preproc is left with, and the
\* entry bsearch() gave (the null pointer when it was not called)
find_keyword_type(word, len, found) ==
  LET ss == string(word, len)
  IN  IF len <= 0
        THEN [type |-> CT_NONE, in_preproc |-> cpd_in_preproc, found |-> nullptr]
      ELSE IF ss \in DOMAIN dkwm
        THEN [type |-> dkwm[ss], in_preproc |-> cpd_in_preproc, found |-> nullptr]
      ELSE static_lookup(found)

-----------------------------------------------------------------------------
(* load_keyword_file                                                       *)

max_line_length == 256
max_arg_count == 2

\* the bytes '\n' and '#'
NL == <<10>>
Hash == 35

Min(a, b) == IF a <= b THEN a ELSE b

\* fgets(buf, max_line_length, pf) with the file read up to pos - 1: the
\* bytes from pos up to and with the first '\n', and no more than
\* max_line_length - 1 of them
fgets(bytes, pos) ==
  LET most == Min(Len(bytes), pos + max_line_length - 2)
      nls  == {i \in pos..most : bytes[i] = NL[1]}
  IN  SubSeq(bytes, pos, IF nls = {} THEN most ELSE CHOOSE i \in nls : \A j \in nls : i <= j)

\* strchr(buf, '#') and *ptr = 0: the line up to the first '#'
strip_comment(buf) ==
  LET hs == {i \in 1..Len(buf) : buf[i] = Hash}
  IN  IF hs = {} THEN buf
      ELSE SubSeq(buf, 1, (CHOOSE i \in hs : \A j \in hs : i <= j) - 1)

\* isspace in the C locale
unc_isspace(ch) == ch \in {32, 9, 10, 11, 12, 13}

\* Args::SplitLine(text, args, num_args): the words of the text, which are
\* its longest runs of bytes that are not spaces, the first num_args of them
SplitLine(text, num_args) ==
  LET starts == {i \in 1..Len(text) :
                   ~unc_isspace(text[i]) /\ (i = 1 \/ unc_isspace(text[i - 1]))}
      ends(i) == {j \in i..Len(text) :
                   ~unc_isspace(text[j]) /\ (j = Len(text) \/ unc_isspace(text[j + 1]))}
      word(i) == SubSeq(text, i, CHOOSE j \in ends(i) : \A k \in ends(i) : j <= k)
      nth(n)  == CHOOSE i \in starts : Cardinality({k \in starts : k < i}) = n - 1
  IN  [n \in 1..Min(Cardinality(starts), num_args) |-> word(nth(n))]

\* CharTable::IsKw1(ch): ch can start an identifier
IsKw1(ch) == (ch >= 65 /\ ch <= 90) \/ (ch >= 97 /\ ch <= 122) \/ ch = 95

\* the body of the while loop for the line in buf, line_no being counted;
\* added: the tags add_keyword was called with
load_line(st, buf) ==
  LET args == SplitLine(strip_comment(buf), max_arg_count)
      argc == Len(args)
  IN  IF argc > 0
        THEN IF argc = 1 /\ IsKw1(args[1][1])
               THEN [st EXCEPT !.dkwm = add_keyword(@, args[1], CT_TYPE),
                               !.added = Append(@, args[1])]
             ELSE [st EXCEPT !.exit_status = EX_SOFTWARE]
      ELSE st

\* the while loop, the file read up to pos - 1
RECURSIVE load_loop(_, _, _)
load_loop(st, bytes, pos) ==
  IF pos > Len(bytes) THEN [st EXCEPT !.result = EX_OK]
  ELSE Then(fgets(bytes, pos),
            LAMBDA buf :
              Then(load_line([st EXCEPT !.line_no = @ + 1], buf),
                   LAMBDA st2 : IF st2.exit_status # Running THEN st2
                                ELSE load_loop(st2, bytes, pos + Len(buf))))

\* load_keyword_file(filename) with the map as it is; file.exists: fopen
\* gives a file, of the bytes file.bytes
load_keyword_file(map, file) ==
  LET st == [dkwm |-> map, added |-> <<>>, line_no |-> 0, result |-> "none",
             exit_status |-> Running]
  IN  IF ~file.exists THEN [st EXCEPT !.exit_status = EX_IOERR]
      ELSE load_loop(st, file.bytes, 1)

-----------------------------------------------------------------------------
(* print_custom_keywords                                                   *)

\* uncrustify::limits::MAX_OPTION_NAME_LEN
MAX_OPTION_NAME_LEN == 32

\* get_token_name(tt): the name of the token kind, for the kinds that have
\* no line of their own in print_custom_keywords
get_token_name(tt) ==
  CASE tt = CT_WORD -> chars("WORD")
    [] tt = CT_NONE -> chars("NONE")
    [] tt = CT_PREPROC -> chars("PREPROC")

\* what fprintf writes for "%*.s" with the width and " ": no byte of the
\* string, the precision being 0, in a field of the width, which is filled
\* up with spaces (on the other side when the width is negative)
pad(width) == [i \in 1..(IF width < 0 THEN -width ELSE width) |-> 32]

\* CT_MACRO_ELSE is written as CT_MACRO_CLOSE is
print_line_else_as_close(key, tt) ==
  IF tt = CT_TYPE
    THEN chars("custom type ") \o pad(MAX_OPTION_NAME_LEN - 10) \o key \o NL
  ELSE IF tt = CT_MACRO_OPEN
    THEN chars("macro-open ") \o pad(MAX_OPTION_NAME_LEN - 11) \o key \o NL
  ELSE IF tt = CT_MACRO_CLOSE \/ tt = CT_MACRO_ELSE
    THEN chars("macro-close ") \o pad(MAX_OPTION_NAME_LEN - 12) \o key \o NL
  ELSE IF tt = CT_MACRO_ELSE
    THEN chars("macro-else ") \o pad(MAX_OPTION_NAME_LEN - 11) \o key \o NL
  ELSE chars("set ") \o get_token_name(tt) \o <<32>>
         \o pad(MAX_OPTION_NAME_LEN - (4 + Len(get_token_name(tt)))) \o key \o NL

\* the bytes the body of the for loop writes for the entry key -> tt
print_line(key, tt) ==
  IF tt = CT_TYPE
    THEN chars("custom type ") \o pad(MAX_OPTION_NAME_LEN - 10) \o key \o NL
  ELSE IF tt = CT_MACRO_OPEN
    THEN chars("macro-open ") \o pad(MAX_OPTION_NAME_LEN - 11) \o key \o NL
  ELSE IF tt = CT_MACRO_CLOSE
    THEN chars("macro-close ") \o pad(MAX_OPTION_NAME_LEN - 12) \o key \o NL
  ELSE IF tt = CT_MACRO_ELSE
    THEN chars("macro-else ") \o pad(MAX_OPTION_NAME_LEN - 11) \o key \o NL
  ELSE chars("set ") \o get_token_name(tt) \o <<32>>
         \o pad(MAX_OPTION_NAME_LEN - (4 + Len(get_token_name(tt)))) \o key \o NL

\* std::string operator<: strcmp, for strings without a NUL
string_less(a, b) == strcmp(a, b) < 0

\* print_custom_keywords(pfile): the lines written to pfile, one for each
\* entry of the map, in the order of the keys of a std::map
print_custom_keywords(map) ==
  LET nth(n) == CHOOSE t \in DOMAIN map :
                  Cardinality({u \in DOMAIN map : string_less(u, t)}) = n - 1
  IN  [n \in 1..Cardinality(DOMAIN map) |-> print_line(nth(n), map[nth(n)])]

-----------------------------------------------------------------------------
(* get_token_pattern_class                                                 *)

\* the while of a do is taken as any while
get_token_pattern_class_any_while(tok) ==
  CASE tok \in {"CT_IF", "CT_ELSEIF", "CT_SWITCH", "CT_FOR", "CT_WHILE", "CT_SYNCHRONIZED",
                "CT_USING_STMT", "CT_LOCK", "CT_D_WITH", "CT_D_VERSION_IF",
                "CT_D_SCOPE_IF", "CT_WHILE_OF_DO"} -> "PBRACED"
    [] tok \in {"CT_ELSE"} -> "ELSE"
    [] tok \in {"CT_DO", "CT_TRY", "CT_FINALLY", "CT_BODY", "CT_UNITTEST", "CT_UNSAFE",
                "CT_VOLATILE", "CT_GETSET"} -> "BRACED"
    [] tok \in {"CT_CATCH", "CT_D_VERSION", "CT_DEBUG"} -> "OPBRACED"
    [] tok \in {"CT_NAMESPACE"} -> "VBRACED"
    [] tok \in {"CT_WHILE_OF_DO"} \ {"CT_WHILE_OF_DO"} -> "PAREN"
    [] tok \in {"CT_INVARIANT"} -> "OPPAREN"
    [] OTHER -> "NONE"

\* the switch of get_token_pattern_class, the pattern class being the
\* string of its enumerator
get_token_pattern_class(tok) ==
  CASE tok \in {"CT_IF", "CT_ELSEIF", "CT_SWITCH", "CT_FOR", "CT_WHILE", "CT_SYNCHRONIZED",
                "CT_USING_STMT", "CT_LOCK", "CT_D_WITH", "CT_D_VERSION_IF",
                "CT_D_SCOPE_IF"} -> "PBRACED"
    [] tok \in {"CT_ELSE"} -> "ELSE"
    [] tok \in {"CT_DO", "CT_TRY", "CT_FINALLY", "CT_BODY", "CT_UNITTEST", "CT_UNSAFE",
                "CT_VOLATILE", "CT_GETSET"} -> "BRACED"
    [] tok \in {"CT_CATCH", "CT_D_VERSION", "CT_DEBUG"} -> "OPBRACED"
    [] tok \in {"CT_NAMESPACE"} -> "VBRACED"
    [] tok \in {"CT_WHILE_OF_DO"} -> "PAREN"
    [] tok \in {"CT_INVARIANT"} -> "OPPAREN"
    [] OTHER -> "NONE"

-----------------------------------------------------------------------------
(* Inputs.                                                                 *)

\* every value of cpd.lang_flags considered: no language yet, one language,
\* Objective-C++, a C header, and three languages at once
AllLangChoices ==
  { {}, LANG_C, LANG_CPP, LANG_D, LANG_CS, LANG_JAVA, LANG_OC, LANG_VALA, LANG_PAWN,
    LANG_ECMA, LANG_OC \cup LANG_CPP, LANG_C \cup FLAG_HDR,
    LANG_D \cup LANG_JAVA \cup LANG_PAWN }

\* the values of cpd.lang_flags considered together with the dynamic keywords
LangChoices == { {}, LANG_C, LANG_JAVA, LANG_PAWN, LANG_OC \cup LANG_CPP }

\* the values of cpd.in_preproc: outside a directive, in a #define, in a
\* directive not yet known, in a #if
PreprocChoices == {CT_NONE, CT_PP_DEFINE, CT_PREPROC, CT_PP_IF}

\* the words find_keyword_type is called with
Words ==
  { chars(s) : s \in
      { "_Pragma", "__pragma", "endif", "if", "ifdef", "asm", "assert", "int", "char",
        "@interface", "import", "native", "package", "synchronized", "typeof",
        "volatile", "defined", "zzzzznotaword", "IF" } }

\* the calls find_keyword_type(word, len): a whole word, a prefix of it, or no byte of it
Calls ==
  {[word |-> w, len |-> Len(w)] : w \in Words}
    \cup {[word |-> chars("ifdef"), len |-> 2], [word |-> chars("if"), len |-> 0],
          [word |-> chars("zzzzznotaword"), len |-> 0]}

\* the calls add_keyword(tag, type) next to the keyword files
RegistryCalls ==
  { [tag |-> chars("if"), type |-> CT_MACRO_OPEN],
    [tag |-> chars("foo"), type |-> CT_MACRO_CLOSE],
    [tag |-> chars("bar"), type |-> CT_MACRO_ELSE],
    [tag |-> chars("int"), type |-> CT_WORD] }

\* the calls find_keyword_type(word, len) next to the keyword files
RegistryQueries ==
  {[word |-> chars(w), len |-> Len(chars(w))] :
     w \in {"if", "int", "foo", "bar", "endif", "_Pragma"}}

\* a word and a comment longer than the buffer of load_keyword_file
LongWord == [i \in 1..max_line_length |-> 97]
LongComment == <<Hash>> \o SubSeq(LongWord, 1, max_line_length - 2) \o chars("foo bar")

LongTwoWords == SubSeq(LongWord, 1, max_line_length - 1) \o <<32>> \o chars("foo")

File(bytes) == [exists |-> TRUE, bytes |-> bytes]

\* the keyword files: well-formed ones, ones with a bad line, ones with a
\* line longer than the buffer, an empty one and one that cannot be opened
Files ==
  { File(chars("foo") \o NL \o chars("# comment") \o NL \o chars("bar # trailing") \o NL),
    File(chars("int") \o NL \o NL \o <<32, 9>> \o chars("if#x") \o <<32>> \o NL \o chars("bar")),
    File(chars("foo") \o NL \o chars("123abc") \o NL \o chars("bar") \o NL),
    File(chars("if") \o NL \o chars("# comment") \o NL \o chars("foo bar") \o NL
           \o chars("int") \o NL),
    File(LongWord \o NL),
    File(LongComment \o NL),
    File(LongTwoWords \o NL),
    File(<<>>),
    [exists |-> FALSE, bytes |-> <<>>] }

\* token kinds: those of keywords[], those get_token_pattern_class names
\* and those of the dynamic keywords
TokenKinds ==
  {keywords[k].type : k \in 1..Len(keywords)}
    \cup {"CT_IF", "CT_ELSEIF", "CT_SWITCH", "CT_FOR", "CT_WHILE", "CT_SYNCHRONIZED",
          "CT_USING_STMT", "CT_LOCK", "CT_D_WITH", "CT_D_VERSION_IF", "CT_D_SCOPE_IF",
          "CT_ELSE", "CT_DO", "CT_TRY", "CT_FINALLY", "CT_BODY", "CT_UNITTEST",
          "CT_UNSAFE", "CT_VOLATILE", "CT_GETSET", "CT_CATCH", "CT_D_VERSION", "CT_DEBUG",
          "CT_NAMESPACE", "CT_WHILE_OF_DO", "CT_INVARIANT"}
    \cup {CT_NONE, CT_WORD, CT_TYPE, CT_PREPROC, CT_PP_DEFINE, CT_MACRO_OPEN,
          CT_MACRO_CLOSE, CT_MACRO_ELSE}

\* the tables keywords_are_sorted is run on: keywords[] (0) and keywords[]
\* with the entries k and k + 1 exchanged
Tables == 0..(Len(keywords) - 1)

\* the values of cpd.lang_flags init_keywords_for_language is tried with for
\* its count: those above, every language at once, every bit at once, the
\* languages with curly braces, and one with no language
CapacityChoices ==
  AllLangChoices
    \cup { LANG_ALL, LANG_ALL \cup FLAG_HDR \cup FLAG_PP, LANG_ALLC, FLAG_PP }

\* the calls add_keyword(tag, type)
OverrideCalls ==
  { [tag |-> <<>>, type |-> CT_TYPE],
    [tag |-> chars("if"), type |-> CT_TYPE],
    [tag |-> chars("if"), type |-> CT_MACRO_OPEN],
    [tag |-> chars("_Pragma"), type |-> CT_MACRO_OPEN] }

-----------------------------------------------------------------------------
(* The state machine.                                                      *)

\* no call of find_keyword_type has just returned
NoCall ==
  [op |-> "none", word |-> <<>>, len |-> 0, type |-> CT_NONE, pre |-> CT_NONE,
   found |-> nullptr, after_priming |-> FALSE, after_suppressed |-> <<>>,
   reads |-> [first |-> {}, match |-> {}]]

\* no call of another function has just returned
NoRet ==
  [op |-> "none", arg |-> <<>>, result |-> "none", out |-> <<>>, before |-> EmptyMap]

\* the map w but for the spelling tag, which has the kind type
LastWrite(w, tag, type) ==
  [t \in DOMAIN w \cup {tag} |-> IF t = tag THEN type ELSE w[t]]

Init ==
  /\ dkwm = EmptyMap
  /\ keyword_for_lang = <<>>
  /\ language_count = 0
  /\ cpd_lang_flags = {}
  /\ cpd_in_preproc = CT_NONE
  /\ active_flags = {}
  /\ replaced = FALSE
  /\ primed = FALSE
  /\ suppressed = <<>>
  /\ last = NoCall
  /\ written = EmptyMap
  /\ cleared = <<>>
  /\ ret = NoRet
  /\ exit_status = Running

\* the language of the file to format is chosen
SetLang(choices) ==
  /\ last = NoCall
  /\ \E f \in choices : cpd_lang_flags' = f
  /\ replaced' = FALSE
  /\ primed' = FALSE
  /\ suppressed' = <<>>
  /\ UNCHANGED <<dkwm, keyword_for_lang, language_count, cpd_in_preproc, active_flags,
                 last, written, cleared, ret, exit_status>>

\* the tokenizer enters or leaves a preprocessor directive
SetPreproc ==
  /\ last = NoCall
  /\ \E p \in PreprocChoices : cpd_in_preproc' = p
  /\ primed' = FALSE
  /\ suppressed' = <<>>
  /\ UNCHANGED <<dkwm, keyword_for_lang, language_count, cpd_lang_flags, active_flags,
                 replaced, last, written, cleared, ret, exit_status>>

Activate ==
  /\ last = NoCall
  /\ LET r == init_keywords_for_language(keyword_for_lang, language_count, cpd_lang_flags)
     IN  /\ keyword_for_lang' = r.keyword_for_lang
         /\ language_count' = r.language_count
  /\ active_flags' = cpd_lang_flags
  /\ replaced' = (language_count > 0)
  /\ primed' = FALSE
  /\ suppressed' = <<>>
  /\ UNCHANGED <<dkwm, cpd_lang_flags, cpd_in_preproc, last, written, cleared, ret,
                 exit_status>>

AddKeyword(calls) ==
  /\ last = NoCall
  /\ \E c \in calls :
       /\ dkwm' = add_keyword(dkwm, c.tag, c.type)
       /\ written' = LastWrite(written, c.tag, c.type)
  /\ cleared' = <<>>
  /\ primed' = FALSE
  /\ suppressed' = <<>>
  /\ UNCHANGED <<keyword_for_lang, language_count, cpd_lang_flags, cpd_in_preproc,
                 active_flags, replaced, last, ret, exit_status>>

ClearKeywordFile ==
  /\ last = NoCall
  /\ dkwm' = clear(dkwm)
  /\ written' = EmptyMap
  /\ cleared' = <<dkwm>>
  /\ primed' = FALSE
  /\ suppressed' = <<>>
  /\ UNCHANGED <<keyword_for_lang, language_count, cpd_lang_flags, cpd_in_preproc,
                 active_flags, replaced, last, ret, exit_status>>

Resolve(calls) ==
  /\ last = NoCall
  /\ \E c \in calls :
       \E found \in bsearch([tag |-> string(c.word, c.len)]) :
         LET r == find_keyword_type(c.word, c.len, found)
         IN  /\ cpd_in_preproc' = r.in_preproc
             /\ primed' = (/\ r.in_preproc # cpd_in_preproc
                           /\ cpd_in_preproc \in {CT_NONE, CT_PP_DEFINE})
             /\ last' = [op |-> "find_keyword_type", word |-> c.word, len |-> c.len,
                         type |-> r.type, pre |-> cpd_in_preproc,
                         found |-> r.found, after_priming |-> primed,
                         after_suppressed |-> suppressed,
                         reads |-> scan_reads(c.word, c.len, found)]
             /\ suppressed' = IF /\ c.len > 0
                                 /\ string(c.word, c.len) \in DOMAIN dkwm
                                 /\ string(c.word, c.len)
                                      \in {chars("_Pragma"), chars("__pragma")}
                               THEN <<cpd_in_preproc>>
                               ELSE <<>>
  /\ UNCHANGED <<dkwm, keyword_for_lang, language_count, cpd_lang_flags, active_flags,
                 replaced, written, cleared, ret, exit_status>>

\* The caller has taken the result.  This changes no variable of the
\* program; the operations above wait for it only to keep `last` and `ret`
\* the record of the one call that has just returned.  A process that has
\* called exit() takes no step.
Return ==
  /\ last # NoCall
  /\ exit_status = Running
  /\ last' = NoCall
  /\ ret' = NoRet
  /\ UNCHANGED <<dkwm, keyword_for_lang, language_count, cpd_lang_flags, cpd_in_preproc,
                 active_flags, replaced, primed, suppressed, written, cleared, exit_status>>

\* the map w after the writes of the kind type for the tags, in their order
RECURSIVE LastWrites(_, _, _)
LastWrites(w, tags, type) ==
  IF tags = <<>> THEN w
  ELSE LastWrites(LastWrite(w, Head(tags), type), Tail(tags), type)

\* load_keyword_file on one of the files
LoadKeywordFile ==
  /\ last = NoCall
  /\ \E f \in Files :
       LET r == load_keyword_file(dkwm, f)
       IN  /\ dkwm' = r.dkwm
           /\ exit_status' = r.exit_status
           /\ written' = LastWrites(written, r.added, CT_TYPE)
           /\ cleared' = IF r.added = <<>> THEN cleared ELSE <<>>
           /\ ret' = [NoRet EXCEPT !.op = "load_keyword_file", !.arg = <<f>>,
                                   !.result = r.result, !.out = <<r.line_no>>,
                                   !.before = dkwm]
  /\ last' = [NoCall EXCEPT !.op = "load_keyword_file"]
  /\ primed' = FALSE
  /\ suppressed' = <<>>
  /\ UNCHANGED <<keyword_for_lang, language_count, cpd_lang_flags, cpd_in_preproc,
                 active_flags, replaced>>

\* keywords_are_sorted() on one of the tables
KeywordsAreSorted(tables) ==
  /\ last = NoCall
  /\ \E k \in tables :
       LET r == Then(Exchanged(k), LAMBDA table : keywords_are_sorted(table))
       IN  /\ ret' = [NoRet EXCEPT !.op = "keywords_are_sorted", !.arg = <<k>>,
                                   !.result = r.result]
           /\ exit_status' = r.exit_status
  /\ last' = [NoCall EXCEPT !.op = "keywords_are_sorted"]
  /\ primed' = FALSE
  /\ suppressed' = <<>>
  /\ UNCHANGED <<dkwm, keyword_for_lang, language_count, cpd_lang_flags, cpd_in_preproc,
                 active_flags, replaced, written, cleared>>

PrintCustomKeywords ==
  /\ last = NoCall
  /\ ret' = [NoRet EXCEPT !.op = "print_custom_keywords",
                          !.out = print_custom_keywords(dkwm), !.before = dkwm]
  /\ last' = [NoCall EXCEPT !.op = "print_custom_keywords"]
  /\ primed' = FALSE
  /\ suppressed' = <<>>
  /\ UNCHANGED <<dkwm, keyword_for_lang, language_count, cpd_lang_flags, cpd_in_preproc,
                 active_flags, replaced, written, cleared, exit_status>>

\* get_token_pattern_class on one of the token kinds
GetTokenPatternClass ==
  /\ last = NoCall
  /\ \E tok \in TokenKinds :
       ret' = [NoRet EXCEPT !.op = "get_token_pattern_class", !.arg = <<tok>>,
                           !.result = get_token_pattern_class(tok)]
  /\ last' = [NoCall EXCEPT !.op = "get_token_pattern_class"]
  /\ primed' = FALSE
  /\ suppressed' = <<>>
  /\ UNCHANGED <<dkwm, keyword_for_lang, language_count, cpd_lang_flags, cpd_in_preproc,
                 active_flags, replaced, written, cleared, exit_status>>

Next ==
  \/ SetLang(LangChoices)
  \/ SetPreproc
  \/ Activate
  \/ AddKeyword(OverrideCalls)
  \/ ClearKeywordFile
  \/ Resolve(Calls)
  \/ Return

Spec == Init /\ [][Next]_vars

\* The program without dynamic keywords, over every language choice.
NextLanguages ==
  \/ SetLang(AllLangChoices)
  \/ SetPreproc
  \/ Activate
  \/ Resolve(Calls)
  \/ Return

SpecLanguages == Init /\ [][NextLanguages]_vars

\* The dynamic keyword map, with its files, next to the lookup in a C file.
NextRegistry ==
  \/ SetLang({LANG_C})
  \/ Activate
  \/ AddKeyword(RegistryCalls)
  \/ LoadKeywordFile
  \/ ClearKeywordFile
  \/ PrintCustomKeywords
  \/ Resolve(RegistryQueries)
  \/ Return

SpecRegistry == Init /\ [][NextRegistry]_vars

\* The functions that read no variable: keywords_are_sorted over keywords[]
\* and over the tables that differ from it in the order of two neighbours,
\* and get_token_pattern_class over the token kinds.
NextFunctions ==
  \/ KeywordsAreSorted(Tables)
  \/ GetTokenPatternClass
  \/ Return

SpecFunctions == Init /\ [][NextFunctions]_vars

\* The choice of the language flags and init_keywords_for_language alone,
\* over more language flags.
NextCapacity ==
  \/ SetLang(CapacityChoices)
  \/ Activate

SpecCapacity == Init /\ [][NextCapacity]_vars

-----------------------------------------------------------------------------
(* What the claims speak of.                                               *)

\* find_keyword_type has just returned
Resolved == last.op = "find_keyword_type"

\* the word it was called with
Spelling == SubSeq(last.word, 1, last.len)

\* the word has an entry in the dynamic keyword map
Overridden == Spelling \in DOMAIN dkwm

\* inside a preprocessor directive other than a #define
InDirective(in_preproc) == in_preproc \notin {CT_NONE, CT_PP_DEFINE}

\* the entry is marked as preprocessor only
IsPP(e) == "PP" \in e.lang_flags

\* the entry e is one for the word w under the language flags and the
\* preprocessor context given
Qualifies(e, w, flags, in_preproc) ==
  /\ chars(e.tag) = w
  /\ (e.lang_flags \cap flags) # {}
  /\ IsPP(e) <=> InDirective(in_preproc)

\* the entries of keywords[] that qualify
Qualifying(w, flags, in_preproc) ==
  {k \in 1..Len(keywords) : Qualifies(keywords[k], w, flags, in_preproc)}

Least(S) == CHOOSE k \in S : \A j \in S : k <= j

\* the kind of the first entry of keywords[] that qualifies, CT_WORD if none does
FirstMatch(w, flags, in_preproc) ==
  LET S == Qualifying(w, flags, in_preproc)
  IN  IF S = {} THEN CT_WORD ELSE keywords[Least(S)].type

\* keyword_for_lang[] was filled for the language flags of now
Fresh == active_flags = cpd_lang_flags

\* the spellings of keywords[]
CatalogueSpellings == {chars(keywords[k].tag) : k \in 1..Len(keywords)}

-----------------------------------------------------------------------------
\* C1: a non-empty word that has an entry in the dynamic keyword map resolves
\* to the kind of that entry, whatever the language flags, the preprocessor
\* context and the entries of keywords[] for the word are.
OverridePrecedence ==
  (Resolved /\ last.len > 0 /\ Overridden) => last.type = dkwm[Spelling]

\* "if" is registered as CT_MACRO_OPEN and resolves to it inside a #if of a C
\* file, where keywords[] gives CT_PP_IF
OverridePrecedenceWitness ==
  /\ Resolved
  /\ Spelling = chars("if")
  /\ Overridden
  /\ last.type = CT_MACRO_OPEN
  /\ Fresh
  /\ cpd_lang_flags = LANG_C
  /\ last.pre = CT_PP_IF
  /\ FirstMatch(Spelling, cpd_lang_flags, last.pre) = CT_PP_IF

\* C2: with keyword_for_lang[] filled for the language flags of now and no
\* dynamic entry for the word, a non-empty word resolves to the kind of the
\* first entry of keywords[] with its spelling whose languages meet the
\* language flags and whose preprocessor marker agrees with the preprocessor
\* context as it is when the entries are tested, and to CT_WORD when there
\* is none, whichever entry bsearch() gave.
FirstMatchEquivalence ==
  (Resolved /\ last.len > 0 /\ ~Overridden /\ Fresh)
    => last.type = FirstMatch(Spelling, cpd_lang_flags, cpd_in_preproc)

\* "assert" in a D, Java and Pawn file: bsearch() gave an entry of another
\* kind than the first that qualifies, which is Java's
FirstMatchEquivalenceWitness ==
  /\ Resolved
  /\ Spelling = chars("assert")
  /\ Fresh
  /\ cpd_lang_flags = LANG_D \cup LANG_JAVA \cup LANG_PAWN
  /\ last.pre = CT_NONE
  /\ last.found # nullptr
  /\ keyword_for_lang[last.found].type = "CT_FUNCTION"
  /\ last.type = "CT_ASSERT"
  /\ Cardinality(Qualifying(Spelling, cpd_lang_flags, cpd_in_preproc)) = 2

\* C3: find_keyword_type(word, 0) returns CT_NONE and changes nothing,
\* whatever the word, the dynamic keyword map, keyword_for_lang[] and the
\* preprocessor context are.
EmptyInput ==
  [][(last = NoCall /\ last'.op = "find_keyword_type" /\ last'.len = 0)
       => /\ last'.type = CT_NONE
          /\ UNCHANGED <<dkwm, keyword_for_lang, language_count, cpd_lang_flags,
                         cpd_in_preproc>>]_vars

\* "zzzzznotaword" with length 0, the empty spelling being a dynamic keyword
\* and keyword_for_lang[] filled
EmptyInputWitness ==
  /\ Resolved
  /\ last.len = 0
  /\ last.word = chars("zzzzznotaword")
  /\ <<>> \in DOMAIN dkwm
  /\ language_count > 0
  /\ last.type = CT_NONE

\* the word has no qualifying entry in keyword_for_lang[], under the
\* language flags of now and the preprocessor context as it is when the
\* entries are tested
NoCatalogueMatch ==
  \A i \in 1..language_count :
    ~Qualifies(keyword_for_lang[i], Spelling, cpd_lang_flags, cpd_in_preproc)

\* C4, as stated: an empty word, and a word with neither a dynamic entry nor a
\* qualifying entry of keyword_for_lang[], resolve to CT_WORD.
NonErrorIsWord ==
  (Resolved /\ (last.len = 0 \/ (~Overridden /\ NoCatalogueMatch)))
    => last.type = CT_WORD

\* C4, amended: an empty word resolves to CT_NONE; a non-empty word with
\* neither a dynamic entry nor a qualifying entry of keyword_for_lang[]
\* resolves to CT_WORD.
NonErrorConditions ==
  Resolved =>
    /\ last.len = 0 => last.type = CT_NONE
    /\ (last.len > 0 /\ ~Overridden /\ NoCatalogueMatch) => last.type = CT_WORD

\* "int" inside a #if of a C file: its one entry is not a preprocessor one
NonErrorConditionsWitness ==
  /\ Resolved
  /\ Spelling = chars("int")
  /\ ~Overridden
  /\ Fresh
  /\ cpd_lang_flags = LANG_C
  /\ last.pre = CT_PP_IF
  /\ NoCatalogueMatch
  /\ last.found # nullptr
  /\ last.type = CT_WORD

\* C5: a non-empty word that is the spelling of no entry of keywords[] and
\* has no dynamic entry resolves to CT_WORD and leaves cpd.in_preproc as it
\* was.
Fallback ==
  (Resolved /\ last.len > 0 /\ ~Overridden /\ Spelling \notin CatalogueSpellings)
    => (last.type = CT_WORD /\ cpd_in_preproc = last.pre)

\* "IF" in a C file
FallbackWitness ==
  /\ Resolved
  /\ Spelling = chars("IF")
  /\ dkwm # EmptyMap
  /\ Fresh
  /\ cpd_lang_flags = LANG_C
  /\ last.type = CT_WORD

\* the languages of the entry
Languages(e) == e.lang_flags \ FLAG_PP

\* the pairs of entries of keywords[] with one spelling, one preprocessor
\* marker and no language in common
GatedPairs ==
  {p \in (1..Len(keywords)) \X (1..Len(keywords)) :
     /\ p[1] # p[2]
     /\ keywords[p[1]].tag = keywords[p[2]].tag
     /\ IsPP(keywords[p[1]]) = IsPP(keywords[p[2]])
     /\ Languages(keywords[p[1]]) \cap Languages(keywords[p[2]]) = {}}

\* spellings of keywords[] with two entries for disjoint languages
GatedSpellings ==
  {"@interface", "char", "native", "package", "synchronized", "typeof", "volatile"}

\* C6: each of "@interface", "char", "native", "package", "synchronized",
\* "typeof" and "volatile" has such a pair of entries, and for two entries of keywords[] with one spelling, one preprocessor
\* marker and no language in common, the spelling resolves, outside any
\* directive and with no dynamic entry, to the kind of the one entry when
\* keyword_for_lang[] is filled for a single language of that entry, and to
\* the kind of the other when it is filled for a single language of the
\* other.
LanguageGating ==
  (Resolved /\ last.len > 0 /\ ~Overridden /\ Fresh /\ last.pre = CT_NONE
     /\ Cardinality(cpd_lang_flags) = 1)
    => /\ GatedSpellings \subseteq {keywords[p[1]].tag : p \in GatedPairs}
       /\ \A p \in GatedPairs :
            (chars(keywords[p[1]].tag) = Spelling
               /\ cpd_lang_flags \subseteq Languages(keywords[p[1]]))
              => last.type = keywords[p[1]].type

\* "@interface" in a Java file, after it was resolved for another language:
\* the second of its two entries
LanguageGatingWitness ==
  /\ Resolved
  /\ Spelling = chars("@interface")
  /\ Fresh
  /\ replaced
  /\ cpd_lang_flags = LANG_JAVA
  /\ last.pre = CT_NONE
  /\ last.type = "CT_CLASS"
  /\ \E p \in GatedPairs :
       /\ chars(keywords[p[1]].tag) = Spelling
       /\ keywords[p[1]].type = "CT_CLASS"
       /\ keywords[p[2]].type = "CT_OC_INTF"

\* the kinds of the entries of keywords[] for the word w and the language
\* flags that are marked as preprocessor only, and of those that are not
PPKinds(w, flags) ==
  {keywords[k].type : k \in {j \in 1..Len(keywords) :
     /\ chars(keywords[j].tag) = w
     /\ (keywords[j].lang_flags \cap flags) # {}
     /\ IsPP(keywords[j])}}

PlainKinds(w, flags) ==
  {keywords[k].type : k \in {j \in 1..Len(keywords) :
     /\ chars(keywords[j].tag) = w
     /\ (keywords[j].lang_flags \cap flags) # {}
     /\ ~IsPP(keywords[j])}}

\* C7: with keyword_for_lang[] filled for the language flags of now and no
\* dynamic entry, a spelling that has both a preprocessor entry and another
\* entry for these flags resolves to the kind of a preprocessor entry when
\* cpd.in_preproc is inside a directive other than a #define, and to the
\* kind of another entry otherwise.
PreprocessorTieBreak ==
  (Resolved /\ last.len > 0 /\ ~Overridden /\ Fresh
     /\ PPKinds(Spelling, cpd_lang_flags) # {}
     /\ PlainKinds(Spelling, cpd_lang_flags) # {})
    => /\ PPKinds(Spelling, cpd_lang_flags) \cap PlainKinds(Spelling, cpd_lang_flags) = {}
       /\ InDirective(last.pre) <=> last.type \in PPKinds(Spelling, cpd_lang_flags)
       /\ ~InDirective(last.pre) <=> last.type \in PlainKinds(Spelling, cpd_lang_flags)

\* "assert" in a Pawn file inside a directive, bsearch() having given the
\* entry that is not a preprocessor one
PreprocessorTieBreakWitness ==
  /\ Resolved
  /\ Spelling = chars("assert")
  /\ Fresh
  /\ cpd_lang_flags = LANG_PAWN
  /\ last.pre = CT_PREPROC
  /\ last.found # nullptr
  /\ keyword_for_lang[last.found].type = "CT_FUNCTION"
  /\ last.type = "CT_PP_ASSERT"

\* the two spellings that start a pragma
PragmaSpellings == {chars("_Pragma"), chars("__pragma")}

\* the kinds of the entries of keywords[] for the word w that are not marked
\* as preprocessor only
PlainKindsOf(w) ==
  {keywords[k].type : k \in {j \in 1..Len(keywords) :
     chars(keywords[j].tag) = w /\ ~IsPP(keywords[j])}}

\* C8: with keyword_for_lang[] filled for at least one language and no
\* dynamic entry for the word, resolving "_Pragma" or "__pragma" leaves
\* cpd.in_preproc at CT_PREPROC whatever it was; a word with a preprocessor
\* entry for the language flags that is resolved next resolves to the kind
\* of such an entry, while a word resolved outside a directive or in a
\* #define resolves to the kind of an entry that is not a preprocessor one
\* or to CT_WORD.
DirectivePriming ==
  /\ (Resolved /\ last.len > 0 /\ ~Overridden /\ Spelling \in PragmaSpellings
        /\ (active_flags \cap LANG_ALL) # {})
       => cpd_in_preproc = CT_PREPROC
  /\ (Resolved /\ last.len > 0 /\ ~Overridden /\ last.after_priming /\ Fresh
        /\ PPKinds(Spelling, cpd_lang_flags) # {})
       => last.type \in PPKinds(Spelling, cpd_lang_flags)
  /\ (Resolved /\ last.len > 0 /\ ~Overridden /\ Spelling \notin PragmaSpellings
        /\ ~InDirective(last.pre))
       => last.type \in PlainKindsOf(Spelling) \cup {CT_WORD}

\* "endif" right after a "_Pragma" or "__pragma" that was resolved
\* outside a directive or in a #define
DirectivePrimingWitness ==
  /\ Resolved
  /\ last.after_priming
  /\ Spelling = chars("endif")
  /\ ~Overridden
  /\ last.pre = CT_PREPROC
  /\ last.type = "CT_PP_ENDIF"

\* C9: after any calls of init_keywords_for_language, keyword_for_lang[0 ..
\* language_count) is the sequence of the entries of keywords[] whose
\* language flags meet the flags of the last call, whatever the earlier calls
\* left.
ActivateReplaces ==
  LET Applies(e) == (e.lang_flags \cap active_flags) # {}
  IN  /\ keyword_for_lang = SelectSeq(keywords, Applies)
      /\ language_count = Len(keyword_for_lang)

\* filled for Pawn over the entries of an earlier call
ActivateReplacesWitness ==
  /\ replaced
  /\ active_flags = LANG_PAWN
  /\ language_count > 0
  /\ language_count < Len(keywords)

\* the place of an entry in keywords[]
MasterIndex ==
  [e \in {keywords[k] : k \in 1..Len(keywords)} |->
     CHOOSE k \in 1..Len(keywords) : keywords[k] = e]

\* C10: keyword_for_lang[0 .. language_count) is sorted by spelling, the
\* entries of one spelling are next to each other, and they are in the
\* order they have in keywords[].
FilteredOrder ==
  /\ \A i \in 1..(language_count - 1) :
       strcmp(chars(keyword_for_lang[i].tag), chars(keyword_for_lang[i + 1].tag)) <= 0
  /\ \A i \in 1..language_count : \A j \in (i + 1)..language_count :
       keyword_for_lang[i].tag = keyword_for_lang[j].tag
         => /\ \A k \in i..j : keyword_for_lang[k].tag = keyword_for_lang[i].tag
            /\ MasterIndex[keyword_for_lang[i]] < MasterIndex[keyword_for_lang[j]]

\* filled for D, Java and Pawn, with the three entries of "assert"
FilteredOrderWitness ==
  /\ replaced
  /\ active_flags = LANG_D \cup LANG_JAVA \cup LANG_PAWN
  /\ \E i \in 1..(language_count - 2) :
       /\ keyword_for_lang[i].type = "CT_ASSERT"
       /\ keyword_for_lang[i + 1].type = "CT_FUNCTION"
       /\ keyword_for_lang[i + 2].type = "CT_PP_ASSERT"

\* the tags of the table do not go down
Sorted(table) ==
  \A i \in 1..(Len(table) - 1) : strcmp(chars(table[i].tag), chars(table[i + 1].tag)) <= 0

\* the entries of one tag are next to each other
Contiguous(table) ==
  \A i \in 1..Len(table) : \A j \in (i + 1)..Len(table) :
    table[i].tag = table[j].tag => \A k \in i..j : table[k].tag = table[i].tag

\* C11: keywords[] is sorted by strcmp on the tags and the entries of one
\* tag are next to each other, so that keywords_are_sorted() returns true
\* without calling exit(); on a table with two neighbours in bad order it
\* calls exit(EX_SOFTWARE).
SortInvariant ==
  ret.op = "keywords_are_sorted" =>
    \A table \in {Exchanged(ret.arg[1])} :
      /\ ret.arg = <<0>> =>
           /\ Sorted(table)
           /\ Contiguous(table)
           /\ ret.result = "true"
           /\ exit_status = Running
      /\ Sorted(table) => (ret.result = "true" /\ exit_status = Running)
      /\ ~Sorted(table) => (ret.result = "none" /\ exit_status = EX_SOFTWARE)

\* keywords_are_sorted() has returned true on keywords[]
SortInvariantWitness ==
  /\ ret.op = "keywords_are_sorted"
  /\ ret.arg = <<0>>
  /\ ret.result = "true"
  /\ exit_status = Running

\* C12: after any add_keyword, load_keyword_file and clear_keyword_file,
\* dkwm has, for each spelling written since the last clear, the kind of the
\* last write of that spelling (CT_TYPE for a write of load_keyword_file)
\* and no other entry, and find_keyword_type returns that kind for the
\* spelling.
LastWriteWins ==
  /\ DOMAIN dkwm = DOMAIN written
  /\ \A t \in DOMAIN written : dkwm[t] = written[t]
  /\ (Resolved /\ last.len > 0 /\ Spelling \in DOMAIN written)
       => last.type = written[Spelling]

\* "if" was CT_MACRO_OPEN by add_keyword and is CT_TYPE after the file
\* with the line "if" was loaded, the other entries being as they were
LastWriteWinsWitness ==
  /\ ret.op = "load_keyword_file"
  /\ chars("if") \in DOMAIN ret.before
  /\ chars("foo") \in DOMAIN ret.before
  /\ ret.before[chars("if")] = CT_MACRO_OPEN
  /\ dkwm[chars("if")] = CT_TYPE
  /\ dkwm[chars("foo")] = CT_MACRO_CLOSE

\* the kind the entries of keyword_for_lang[] give for the word w: that
\* of the first entry of keywords[] for w that was copied for the flags of
\* the last init_keywords_for_language and is one for the language flags and
\* the preprocessor context of now, CT_WORD if there is none
CatalogueAlone(w) ==
  LET S == Qualifying(w, active_flags, cpd_in_preproc)
             \cap Qualifying(w, cpd_lang_flags, cpd_in_preproc)
  IN  IF S = {} THEN CT_WORD ELSE keywords[Least(S)].type

\* a step of clear_keyword_file
ClearStep == cleared' # <<>> /\ cleared' # cleared

\* C13: after clear_keyword_file dkwm is empty, and a non-empty word
\* resolves to the kind the entries of keyword_for_lang[] give for it;
\* clear_keyword_file changes neither keyword_for_lang[], language_count nor
\* cpd.in_preproc.
ClearEmpties ==
  /\ [](cleared # <<>> =>
          /\ DOMAIN dkwm = {}
          /\ (Resolved /\ last.len > 0) => last.type = CatalogueAlone(Spelling))
  /\ [][ClearStep =>
          /\ DOMAIN dkwm' = {}
          /\ UNCHANGED <<keyword_for_lang, language_count, cpd_in_preproc,
                         cpd_lang_flags>>]_vars

\* "if" was CT_MACRO_OPEN before clear_keyword_file and resolves to CT_IF
\* after it
ClearEmptiesWitness ==
  /\ cleared # <<>>
  /\ chars("if") \in DOMAIN cleared[1]
  /\ cleared[1][chars("if")] = CT_MACRO_OPEN
  /\ Resolved
  /\ Spelling = chars("if")
  /\ last.type = "CT_IF"

\* the lines of a text: what is between its newlines
TextLines(bytes) ==
  LET starts == {i \in 1..Len(bytes) : i = 1 \/ bytes[i - 1] = NL[1]}
      stops(i) == {j \in i..(Len(bytes) + 1) : j = Len(bytes) + 1 \/ bytes[j] = NL[1]}
      line(i) == SubSeq(bytes, i, (CHOOSE j \in stops(i) : \A k \in stops(i) : j <= k) - 1)
      nth(n) == CHOOSE i \in starts : Cardinality({k \in starts : k < i}) = n - 1
  IN  [n \in 1..Cardinality(starts) |-> line(nth(n))]

\* the words of a line, what follows the first '#' being left out
WordsOf(line) == SplitLine(strip_comment(line), Len(line))

\* the line has no word, it is made of one word that can be a keyword
Blank(line) == WordsOf(line) = <<>>
OneWord(line) == Len(WordsOf(line)) = 1 /\ IsKw1(WordsOf(line)[1][1])

\* the map is the map before with the kind CT_TYPE for each of the words
TypesAdded(map, before, words) ==
  /\ DOMAIN map = DOMAIN before \cup words
  /\ \A w \in words : map[w] = CT_TYPE
  /\ \A t \in DOMAIN before \ words : map[t] = before[t]

\* C14: load_keyword_file on a file of which every line is blank or one
\* word that can be a keyword, comments left out, returns EX_OK, and dkwm
\* is then as before but for these words, which have the kind CT_TYPE.
SuccessfulLoad ==
  (ret.op = "load_keyword_file" /\ ret.arg[1].exists)
    => \A lines \in {TextLines(ret.arg[1].bytes)} :
         (\A n \in DOMAIN lines : Blank(lines[n]) \/ OneWord(lines[n]))
           => /\ ret.result = EX_OK
              /\ exit_status = Running
              /\ TypesAdded(dkwm, ret.before,
                            {WordsOf(lines[n])[1] : n \in {m \in DOMAIN lines : OneWord(lines[m])}})

\* C15: load_keyword_file on a file whose line k is the first that is
\* neither blank nor one word that can be a keyword calls exit(EX_SOFTWARE)
\* at line k, and dkwm is then as before but for the words of the lines
\* before k, which have the kind CT_TYPE.
MalformedLoad ==
  (ret.op = "load_keyword_file" /\ ret.arg[1].exists)
    => \A lines \in {TextLines(ret.arg[1].bytes)} :
         \A k \in DOMAIN lines :
           (/\ ~Blank(lines[k]) /\ ~OneWord(lines[k])
            /\ \A n \in 1..(k - 1) : Blank(lines[n]) \/ OneWord(lines[n]))
             => /\ exit_status = EX_SOFTWARE
                /\ ret.out = <<k>>
                /\ TypesAdded(dkwm, ret.before,
                              {WordsOf(lines[n])[1] : n \in {m \in 1..(k - 1) : OneWord(lines[m])}})

\* the pattern class of the token kinds that have one
PatternClassOf ==
  [tok \in {"CT_IF", "CT_ELSEIF", "CT_SWITCH", "CT_FOR", "CT_WHILE", "CT_SYNCHRONIZED",
            "CT_USING_STMT", "CT_LOCK", "CT_D_WITH", "CT_D_VERSION_IF", "CT_D_SCOPE_IF",
            "CT_ELSE", "CT_DO", "CT_TRY", "CT_FINALLY", "CT_BODY", "CT_UNITTEST",
            "CT_UNSAFE", "CT_VOLATILE", "CT_GETSET", "CT_CATCH", "CT_D_VERSION", "CT_DEBUG",
            "CT_NAMESPACE", "CT_WHILE_OF_DO", "CT_INVARIANT"} |->
     IF tok = "CT_ELSE" THEN "ELSE"
     ELSE IF tok \in {"CT_DO", "CT_TRY", "CT_FINALLY", "CT_BODY", "CT_UNITTEST", "CT_UNSAFE",
                      "CT_VOLATILE", "CT_GETSET"} THEN "BRACED"
     ELSE IF tok \in {"CT_CATCH", "CT_D_VERSION", "CT_DEBUG"} THEN "OPBRACED"
     ELSE IF tok = "CT_NAMESPACE" THEN "VBRACED"
     ELSE IF tok = "CT_WHILE_OF_DO" THEN "PAREN"
     ELSE IF tok = "CT_INVARIANT" THEN "OPPAREN"
     ELSE "PBRACED"]

\* C16: get_token_pattern_class, which reads its argument only, returns for
\* every token kind: PBRACED for CT_IF, CT_ELSEIF, CT_SWITCH, CT_FOR, CT_WHILE,
\* CT_SYNCHRONIZED, CT_USING_STMT, CT_LOCK, CT_D_WITH, CT_D_VERSION_IF and
\* CT_D_SCOPE_IF, ELSE for CT_ELSE, BRACED for CT_DO, CT_TRY, CT_FINALLY,
\* CT_BODY, CT_UNITTEST, CT_UNSAFE, CT_VOLATILE and CT_GETSET, OPBRACED for
\* CT_CATCH, CT_D_VERSION and CT_DEBUG, VBRACED for CT_NAMESPACE, PAREN for
\* CT_WHILE_OF_DO, OPPAREN for CT_INVARIANT, and NONE for any other kind.
ClassifierMapping ==
  ret.op = "get_token_pattern_class" =>
    /\ ret.result = IF ret.arg[1] \in DOMAIN PatternClassOf
                      THEN PatternClassOf[ret.arg[1]] ELSE "NONE"
    /\ exit_status = Running

\* the while of a do has the class PAREN
ClassifierMappingWitness ==
  /\ ret.op = "get_token_pattern_class"
  /\ ret.arg = <<"CT_WHILE_OF_DO">>
  /\ ret.result = "PAREN"

\* what a line of print_custom_keywords starts with for the kind
LabelOf(tt) ==
  IF tt = CT_TYPE THEN chars("custom type ")
  ELSE IF tt = CT_MACRO_OPEN THEN chars("macro-open ")
  ELSE IF tt = CT_MACRO_CLOSE THEN chars("macro-close ")
  ELSE IF tt = CT_MACRO_ELSE THEN chars("macro-else ")
  ELSE chars("set ") \o get_token_name(tt) \o <<32>>

\* the line is the label of the kind, spaces, the spelling and a newline
RecordOf(line, t, tt) ==
  \E n \in 0..MAX_OPTION_NAME_LEN :
    line = LabelOf(tt) \o [i \in 1..n |-> 32] \o t \o NL

\* a step of print_custom_keywords
PrintStep == ret.op = "none" /\ ret'.op = "print_custom_keywords"

\* C17: print_custom_keywords writes one line for each entry of dkwm and
\* no other: "custom type" for CT_TYPE, "macro-open", "macro-close" and
\* "macro-else" for these three kinds and "set" with the name of the kind
\* for any other, then the spelling; it changes neither dkwm nor any
\* other variable of the program.
SerializeComplete ==
  /\ [](ret.op = "print_custom_keywords" =>
          /\ Len(ret.out) = Cardinality(DOMAIN ret.before)
          /\ \A t \in DOMAIN ret.before :
               Cardinality({i \in DOMAIN ret.out : RecordOf(ret.out[i], t, ret.before[t])}) = 1
          /\ dkwm = ret.before)
  /\ [][PrintStep =>
          UNCHANGED <<dkwm, keyword_for_lang, language_count, cpd_lang_flags,
                      cpd_in_preproc, exit_status>>]_vars

\* a line of each of the five sorts is written
SerializeCompleteWitness ==
  /\ ret.op = "print_custom_keywords"
  /\ {dkwm[t] : t \in DOMAIN dkwm}
       = {CT_TYPE, CT_MACRO_OPEN, CT_MACRO_CLOSE, CT_MACRO_ELSE, CT_WORD}
  /\ \E i \in DOMAIN ret.out :
       ret.out[i] = chars("set ") \o chars("WORD") \o <<32>>
                      \o pad(MAX_OPTION_NAME_LEN - 8) \o chars("int") \o NL

\* a step of find_keyword_type
ResolveStep == last.op = "none" /\ last'.op = "find_keyword_type"

\* C18: find_keyword_type changes neither dkwm nor keyword_for_lang[] and
\* language_count, and it changes cpd.in_preproc only when the word is
\* "_Pragma" or "__pragma".
ResolveFrame ==
  [][ResolveStep =>
       /\ UNCHANGED <<dkwm, keyword_for_lang, language_count>>
       /\ string(last'.word, last'.len) \notin PragmaSpellings
            => cpd_in_preproc' = cpd_in_preproc]_vars

\* "endif" was resolved inside a #if of a C file, with a dynamic keyword
\* in the map: cpd.in_preproc is as it was
ResolveFrameWitness ==
  /\ Resolved
  /\ Spelling = chars("endif")
  /\ last.type = "CT_PP_ENDIF"
  /\ last.pre = CT_PP_IF
  /\ cpd_in_preproc = CT_PP_IF
  /\ DOMAIN dkwm # {}
  /\ language_count > 0

\* the kinds find_keyword_type can return for the word w, not one that
\* starts a pragma, were cpd.in_preproc in_preproc and the other variables
\* as they are
KindsUnder(w, in_preproc) ==
  IF w \in DOMAIN dkwm THEN {dkwm[w]}
  ELSE {IF found = nullptr THEN CT_WORD
        ELSE LET p_ret == kw_static_match(found, cpd_lang_flags, in_preproc)
             IN  IF p_ret # nullptr THEN keyword_for_lang[p_ret].type ELSE CT_WORD :
          found \in bsearch([tag |-> w])}

\* C19: a word other than "_Pragma" and "__pragma" resolves with
\* cpd.in_preproc = CT_PP_DEFINE to the kind it resolves to with
\* cpd.in_preproc = CT_NONE, whatever keyword_for_lang[] and dkwm hold, and
\* without a dynamic entry never to the kind of a preprocessor entry: in a
\* #define, "if" is CT_IF and "endif" is CT_WORD.
MacroDefinitionContext ==
  (Resolved /\ last.len > 0 /\ Spelling \notin PragmaSpellings)
    => /\ last.pre = CT_PP_DEFINE =>
            /\ KindsUnder(Spelling, CT_NONE) = {last.type}
            /\ ~Overridden => last.type \in PlainKindsOf(Spelling) \cup {CT_WORD}
            /\ (~Overridden /\ Fresh /\ cpd_lang_flags # {} /\ Spelling = chars("if"))
                 => last.type = "CT_IF"
            /\ (~Overridden /\ Spelling = chars("endif")) => last.type = CT_WORD
       /\ last.pre = CT_NONE => KindsUnder(Spelling, CT_PP_DEFINE) = {last.type}

\* "if" in the body of a #define of a C file
MacroDefinitionContextWitness ==
  /\ Resolved
  /\ Spelling = chars("if")
  /\ ~Overridden
  /\ last.pre = CT_PP_DEFINE
  /\ cpd_lang_flags = LANG_C
  /\ last.type = "CT_IF"

\* find_keyword_type has resolved a word without a dynamic entry,
\* keyword_for_lang[] being filled for the language flags of now
ResolvedInCatalogue == Resolved /\ last.len > 0 /\ ~Overridden /\ Fresh

\* the word has entries for the language flags, and none of them is (all of
\* them are) a preprocessor entry
OnlyPlain == PlainKinds(Spelling, cpd_lang_flags) # {} /\ PPKinds(Spelling, cpd_lang_flags) = {}
OnlyPP == PPKinds(Spelling, cpd_lang_flags) # {} /\ PlainKinds(Spelling, cpd_lang_flags) = {}

\* C20, as it is stated: without a dynamic entry, a word that has no
\* preprocessor entry for the language resolves to CT_WORD inside a
\* directive other than a #define, and a word that has only preprocessor
\* entries for the language resolves to CT_WORD outside any directive.
MarkerAgreement ==
  ResolvedInCatalogue
    => /\ (InDirective(last.pre) /\ OnlyPlain) => last.type = CT_WORD
       /\ (last.pre = CT_NONE /\ OnlyPP) => last.type = CT_WORD

\* C20, amended: the second half holds for every word but "_Pragma" and
\* "__pragma", which have only preprocessor entries and resolve outside a
\* directive to CT_PP_PRAGMA, find_keyword_type having set cpd.in_preproc to
\* CT_PREPROC before it looks for the entry.
MarkerAgreementButPragma ==
  ResolvedInCatalogue
    => /\ (InDirective(last.pre) /\ OnlyPlain) => last.type = CT_WORD
       /\ (~InDirective(last.pre) /\ OnlyPP /\ Spelling \notin PragmaSpellings)
            => last.type = CT_WORD
       /\ (~InDirective(last.pre) /\ OnlyPP /\ Spelling \in PragmaSpellings)
            => last.type = CT_PP_PRAGMA

\* "import" outside a directive of an Objective-C file, where its one
\* entry is a preprocessor entry
MarkerAgreementButPragmaWitness ==
  /\ ResolvedInCatalogue
  /\ Spelling = chars("import")
  /\ cpd_lang_flags = LANG_OC
  /\ last.pre = CT_NONE
  /\ OnlyPP
  /\ last.type = CT_WORD

-----------------------------------------------------------------------------
\* a language is named by the flags keyword_for_lang[] was filled for and by
\* the language flags of now
LanguageActive ==
  (active_flags \cap LANG_ALL) # {} /\ (cpd_lang_flags \cap LANG_ALL) # {}

\* C21: with keyword_for_lang[] filled for at least one language, the
\* language flags naming a language and no dynamic entry for the word,
\* "_Pragma" and "__pragma" resolve to CT_PP_PRAGMA whatever cpd.in_preproc
\* was before the call, CT_NONE and CT_PP_DEFINE included: cpd.in_preproc is
\* set to CT_PREPROC before the preprocessor entry is tested.
PrimingPrecedesFiltering ==
  (Resolved /\ last.len > 0 /\ ~Overridden /\ Spelling \in PragmaSpellings
     /\ LanguageActive)
    => (last.type = CT_PP_PRAGMA /\ cpd_in_preproc = CT_PREPROC)

\* "__pragma" in a #define of a C file, the map holding an entry for
\* "_Pragma"
PrimingPrecedesFilteringWitness ==
  /\ Resolved
  /\ Spelling = chars("__pragma")
  /\ chars("_Pragma") \in DOMAIN dkwm
  /\ Fresh
  /\ cpd_lang_flags = LANG_C
  /\ last.pre = CT_PP_DEFINE
  /\ last.type = CT_PP_PRAGMA

-----------------------------------------------------------------------------
-----------------------------------------------------------------------------
\* C23: "_Pragma" and "__pragma", when the dynamic keyword map has an entry
\* for them, resolve to the kind of that entry and leave cpd.in_preproc as
\* it was; the word resolved next is resolved with cpd.in_preproc as it was
\* before, so that outside a directive or in a #define a word other than
\* these two with no dynamic entry resolves to CT_WORD or to the kind of an
\* entry that is not a preprocessor one.
OverrideSuppressesPriming ==
  /\ (Resolved /\ last.len > 0 /\ Overridden /\ Spelling \in PragmaSpellings)
       => /\ last.type = dkwm[Spelling]
          /\ cpd_in_preproc = last.pre
          /\ suppressed = <<last.pre>>
  /\ (Resolved /\ last.after_suppressed # <<>>)
       => /\ last.pre = last.after_suppressed[1]
          /\ (last.len > 0 /\ ~Overridden /\ Spelling \notin PragmaSpellings
                /\ ~InDirective(last.pre))
               => last.type \in PlainKindsOf(Spelling) \cup {CT_WORD}

\* "endif" in a C file outside a directive, right after "_Pragma" was
\* resolved to the kind of its dynamic entry: CT_WORD, not CT_PP_ENDIF
OverrideSuppressesPrimingWitness ==
  /\ Resolved
  /\ last.after_suppressed = <<CT_NONE>>
  /\ Spelling = chars("endif")
  /\ ~Overridden
  /\ Fresh
  /\ cpd_lang_flags = LANG_C
  /\ dkwm[chars("_Pragma")] = CT_MACRO_OPEN
  /\ last.type = CT_WORD

-----------------------------------------------------------------------------
\* no entry of keywords[] has one of the flags
NoEntryFor(flags) == \A k \in 1..Len(keywords) : (keywords[k].lang_flags \cap flags) = {}

\* C24: before the first init_keywords_for_language, and after one for
\* language flags that no entry of keywords[] has, keyword_for_lang[] is
\* empty; and while it is empty a non-empty word with no dynamic entry,
\* "if", "_Pragma" and "__pragma" included, resolves to CT_WORD and leaves
\* cpd.in_preproc as it was.
ResolveBeforeActivation ==
  /\ NoEntryFor(active_flags) => (language_count = 0 /\ keyword_for_lang = <<>>)
  /\ (Resolved /\ last.len > 0 /\ ~Overridden /\ language_count = 0)
       => (last.type = CT_WORD /\ cpd_in_preproc = last.pre)

\* "__pragma" outside a directive, the language flags being those of a C
\* file and keyword_for_lang[] not filled for them
ResolveBeforeActivationWitness ==
  /\ Resolved
  /\ Spelling = chars("__pragma")
  /\ ~Overridden
  /\ active_flags = {}
  /\ language_count = 0
  /\ cpd_lang_flags = LANG_C
  /\ last.pre = CT_NONE
  /\ cpd_in_preproc = CT_NONE
  /\ last.type = CT_WORD

-----------------------------------------------------------------------------
\* the kinds of the entries of keywords[] for the word w that have a flag
\* of the language flags keyword_for_lang[] was filled for, a flag of the
\* language flags of now, and the preprocessor marker that agrees with
\* in_preproc
KindsForBoth(w, in_preproc) ==
  {keywords[k].type : k \in {j \in 1..Len(keywords) :
     /\ chars(keywords[j].tag) = w
     /\ (keywords[j].lang_flags \cap active_flags) # {}
     /\ (keywords[j].lang_flags \cap cpd_lang_flags) # {}
     /\ IsPP(keywords[j]) <=> InDirective(in_preproc)}}

\* C25: when the language flags are no longer those keyword_for_lang[] was
\* filled for, a non-empty word with no dynamic entry resolves to CT_WORD or
\* to the kind of an entry of keywords[] with its spelling that has a flag
\* of the flags keyword_for_lang[] was filled for and a flag of the language
\* flags of now, and whose preprocessor marker agrees with the preprocessor
\* context as it is when the entries are tested; never to the kind of an
\* entry for other languages only.
StaleActivation ==
  (Resolved /\ last.len > 0 /\ ~Overridden /\ ~Fresh)
    => last.type \in KindsForBoth(Spelling, cpd_in_preproc) \cup {CT_WORD}

\* "assert" in a Pawn file with keyword_for_lang[] filled for D, Java and
\* Pawn: the entry of Java, the first for the word, is passed over
StaleActivationWitness ==
  /\ Resolved
  /\ Spelling = chars("assert")
  /\ ~Fresh
  /\ active_flags = LANG_D \cup LANG_JAVA \cup LANG_PAWN
  /\ cpd_lang_flags = LANG_PAWN
  /\ last.pre = CT_NONE
  /\ \E i \in 1..language_count :
       keyword_for_lang[i].tag = "assert" /\ keyword_for_lang[i].type = "CT_ASSERT"
  /\ last.type = "CT_FUNCTION"

-----------------------------------------------------------------------------
\* two entries of keywords[] that one language and one preprocessor context
\* could both be for: one spelling, a language in common, one marker
Ambiguous(i, j) ==
  /\ keywords[i].tag = keywords[j].tag
  /\ (Languages(keywords[i]) \cap Languages(keywords[j])) # {}
  /\ IsPP(keywords[i]) = IsPP(keywords[j])

\* keywords[] has no two such entries
NoAmbiguousPair ==
  \A i \in 1..Len(keywords) : \A j \in (i + 1)..Len(keywords) : ~Ambiguous(i, j)

\* the language flags name one language
SingleLanguage == Cardinality(cpd_lang_flags \cap LANG_ALL) = 1

\* C26: two distinct entries of keywords[] with one spelling have no
\* language in common or differ in the preprocessor marker; so with
\* keyword_for_lang[] filled for a single language, whatever the
\* preprocessor context, at most one entry qualifies for a word, and a
\* non-empty word with no dynamic entry resolves to the kind of that entry,
\* or to CT_WORD when there is none, whatever the order of the entries and
\* whichever entry bsearch() gave.
UnambiguousPerLanguage ==
  /\ NoAmbiguousPair
  /\ (Resolved /\ last.len > 0 /\ ~Overridden /\ Fresh /\ SingleLanguage)
       => \A Q \in {Qualifying(Spelling, cpd_lang_flags, cpd_in_preproc)} :
            /\ Cardinality(Q) <= 1
            /\ \A k \in Q : last.type = keywords[k].type
            /\ Q = {} => last.type = CT_WORD

\* "assert" in a Pawn file inside a #if: of its two entries for Pawn the
\* one with the preprocessor marker qualifies, bsearch() having given the
\* other
UnambiguousPerLanguageWitness ==
  /\ Resolved
  /\ Spelling = chars("assert")
  /\ Fresh
  /\ cpd_lang_flags = LANG_PAWN
  /\ last.pre = CT_PP_IF
  /\ Cardinality({i \in 1..language_count : keyword_for_lang[i].tag = "assert"}) = 2
  /\ Cardinality(Qualifying(Spelling, cpd_lang_flags, cpd_in_preproc)) = 1
  /\ last.found # nullptr
  /\ ~IsPP(keyword_for_lang[last.found])
  /\ last.type = "CT_PP_ASSERT"

-----------------------------------------------------------------------------
\* C27: in every call of find_keyword_type the entries kw_static_first
\* reads through prev are at the start of keyword_for_lang[] or after it,
\* the entries the loop of kw_static_match reads are before
\* &keyword_for_lang[language_count], and each of the two loops reads at
\* most language_count entries, after which it has ended.
ScanBounds ==
  Resolved =>
    /\ \A i \in last.reads.first : i >= 1 /\ i <= language_count
    /\ \A i \in last.reads.match : i >= 1 /\ i <= language_count
    /\ Cardinality(last.reads.first) <= language_count
    /\ Cardinality(last.reads.match) <= language_count

\* "_Pragma" with keyword_for_lang[] filled for C# and no language flag
\* set: bsearch() gave the first entry, so that prev is before the start and
\* no entry is read through it, and the loop of kw_static_match reads every
\* entry up to the last
ScanBoundsWitness ==
  /\ Resolved
  /\ Spelling = chars("_Pragma")
  /\ active_flags = LANG_CS
  /\ cpd_lang_flags = {}
  /\ last.found = 1
  /\ last.reads.first = {}
  /\ language_count > 1
  /\ last.reads.match = 1..language_count
  /\ last.type = CT_WORD

====
